---------------------------- MODULE Spec2Model ----------------------------
(***************************************************************************)
(* Model of svdsuite-svdconv-compare: the structural comparator            *)
(* (src/compare.py) that walks two peripheral forests in lock-step, the    *)
(* forest produced by the svdconv parser and the one produced by svdsuite; *)
(* the parser of the reference tool's output (src/svdconv/parser.py); and  *)
(* the batch loop that runs both on every file (src/main.py).              *)
(*                                                                         *)
(* Python objects are records; the Python class of an object is its field  *)
(* "kind".  None is the string "None" for optional strings and enum        *)
(* members are their names.  A list is a sequence.                         *)
(***************************************************************************)
EXTENDS Integers, Sequences, FiniteSets, TLC

VARIABLES
    _svdconv_peripherals,   \* Compare._svdconv_peripherals
    _svdsuite_peripherals,  \* Compare._svdsuite_peripherals
    verdict,                \* what the last Compare.compare() returned
    log,                    \* the logger.warning records of the last call
    trace,                  \* the comparisons the last call evaluated, in order
    calls,                  \* number of Compare.compare() calls so far
    debug_output,           \* the lines svdconv prints under --debug-output
    summary_line,           \* the summary line of svdconv's run on the file
    runs,                   \* the argument lists run_svdconv was called with
    result,                 \* the outcome of parse_svdconv_output
    again,                  \* the outcome of parsing the same lines once more
    svd_meta_list,          \* main: the files the loop goes through
    journal,                \* main: what the loop did with each file so far
    exit                    \* main: how the process ended, "running" until then

vars == <<_svdconv_peripherals, _svdsuite_peripherals, verdict, log, trace, calls,
          debug_output, summary_line, runs, result, again,
          svd_meta_list, journal, exit>>

(***************************************************************************)
(* Bounds of the model.                                                    *)
(***************************************************************************)
\* cluster nesting depth of the enumerated forests
NestDepth == 2
\* number of times compare() is called on one Compare object
MaxCalls == 2

Min(a, b) == IF a <= b THEN a ELSE b

(***************************************************************************)
(* The data model: the keyword arguments of the constructors the parser    *)
(* calls.  Every object built by either producer has these attributes.     *)
(***************************************************************************)
EnumeratedValue(name, value, is_default) ==
    [kind |-> "EnumeratedValue", name |-> name, description |-> "None",
     value |-> value, is_default |-> is_default, parsed |-> "None"]

EnumeratedValueContainer(name, usage, enumerated_values) ==
    [kind |-> "EnumeratedValueContainer", name |-> name,
     header_enum_name |-> "None", usage |-> usage,
     enumerated_values |-> enumerated_values, parsed |-> "None"]

Field(name, bit_offset, bit_width, enumerated_value_containers) ==
    [kind |-> "Field", name |-> name, description |-> "None",
     bit_offset |-> bit_offset, bit_width |-> bit_width,
     lsb |-> bit_offset, msb |-> bit_offset + bit_width - 1,
     access |-> "READ_WRITE", modified_write_values |-> "MODIFY",
     write_constraint |-> "None", read_action |-> "None",
     enumerated_value_containers |-> enumerated_value_containers,
     bit_range |-> <<bit_offset + bit_width - 1, bit_offset>>,
     parsed |-> "None"]

Register(name, address_offset, base_address, fields) ==
    [kind |-> "Register", name |-> name, display_name |-> "None",
     description |-> "None", alternate_group |-> "None",
     alternate_register |-> "None", address_offset |-> address_offset,
     data_type |-> "None", modified_write_values |-> "MODIFY",
     write_constraint |-> "None", read_action |-> "None", parsed |-> "None",
     size |-> 32, access |-> "READ_WRITE", protection |-> "ANY",
     reset_value |-> 0, reset_mask |-> 0, base_address |-> base_address,
     fields |-> fields]

Cluster(name, address_offset, base_address, registers_clusters) ==
    [kind |-> "Cluster", name |-> name, description |-> "None",
     alternate_cluster |-> "None", header_struct_name |-> "None",
     address_offset |-> address_offset, parsed |-> "None",
     size |-> 32, access |-> "READ_WRITE", protection |-> "ANY",
     reset_value |-> 0, reset_mask |-> 0,
     registers_clusters |-> registers_clusters,
     base_address |-> base_address, end_address |-> 0, cluster_size |-> 0]

AddressBlock(offset, size, usage) ==
    [kind |-> "AddressBlock", offset |-> offset, size |-> size,
     usage |-> usage, protection |-> "ANY", parsed |-> "None"]

Interrupt(name, value) ==
    [kind |-> "Interrupt", name |-> name, description |-> "None",
     value |-> value, parsed |-> "None"]

Peripheral(name, base_address, address_blocks, interrupts, registers_clusters) ==
    [kind |-> "Peripheral", name |-> name, version |-> "None",
     description |-> "None", alternate_peripheral |-> "None",
     group_name |-> "None", prepend_to_name |-> "None",
     append_to_name |-> "None", header_struct_name |-> "None",
     disable_condition |-> "None", base_address |-> base_address,
     address_blocks |-> address_blocks, interrupts |-> interrupts,
     parsed |-> "None", size |-> 32, access |-> "READ_WRITE",
     protection |-> "ANY", reset_value |-> 0, reset_mask |-> 0,
     end_address |-> 0, end_address_effective |-> 0,
     peripheral_size |-> 0, peripheral_size_effective |-> 0,
     registers_clusters |-> registers_clusters, registers |-> <<>>]

\* the attributes of each class that hold a list of child objects
ListAttrs(kind) ==
    CASE kind = "Root" -> <<"peripherals">>
      [] kind = "Peripheral" -> <<"address_blocks", "interrupts", "registers_clusters">>
      [] kind = "Register" -> <<"fields">>
      [] kind = "Cluster" -> <<"registers_clusters">>
      [] kind = "Field" -> <<"enumerated_value_containers">>
      [] kind = "EnumeratedValueContainer" -> <<"enumerated_values">>
      [] OTHER -> <<>>

SeqRange(s) == {s[i] : i \in DOMAIN s}

(***************************************************************************)
(* The comparator.  Every _compare_* operator returns what the Python      *)
(* method does: ok is the returned bool, log the warnings emitted and      *)
(* trace the comparisons evaluated (path of the object pair, attribute,    *)
(* kind of comparison) in evaluation order.                                *)
(***************************************************************************)
Passed == [ok |-> TRUE, log |-> <<>>, trace |-> <<>>]

\* faulty variant: a failed comparison does not return, the rest is compared as well
ThenWithoutReturn(first, rest) ==
    [ok |-> first.ok /\ rest.ok, log |-> first.log \o rest.log,
     trace |-> first.trace \o rest.trace]

\* statement sequencing: the rest runs only when the first part did not return False
Then(first, rest) ==
    IF first.ok
    THEN [ok |-> rest.ok, log |-> first.log \o rest.log, trace |-> first.trace \o rest.trace]
    ELSE first

Warning(msg, c, s) == [msg |-> msg, c |-> c, s |-> s]

Step(path, attr, op) == [path |-> path, attr |-> attr, op |-> op]

\* a run of "if x_c.attr != x_s.attr: logger.warning(msg, ...); return False"
\* statements; checks is the sequence of <<attr, msg>> in source order
CompareAttrs(c, s, path, checks) ==
    LET differs(i) == c[checks[i][1]] # s[checks[i][1]]
        hits == {i \in DOMAIN checks : differs(i)}
        k == IF hits = {} THEN 0 ELSE CHOOSE i \in hits : \A j \in hits : i <= j
        last == IF k = 0 THEN Len(checks) ELSE k
    IN [ok |-> k = 0,
        log |-> IF k = 0 THEN <<>>
                ELSE <<Warning(checks[k][2], c[checks[k][1]], s[checks[k][1]])>>,
        trace |-> [i \in 1..last |-> Step(path, checks[i][1], "ne")]]

\* faulty variant: the count check is missing, the zip loop pairs what it can
CompareLenMissing(c, s, path, list, msg) ==
    [ok |-> TRUE, log |-> <<>>, trace |-> <<Step(path, list, "len")>>]

\* "if len(x_c.list) != len(x_s.list): logger.warning(msg, ...); return False"
CompareLen(c, s, path, list, msg) ==
    [ok |-> Len(c[list]) = Len(s[list]),
     log |-> IF Len(c[list]) = Len(s[list]) THEN <<>>
             ELSE <<Warning(msg, Len(c[list]), Len(s[list]))>>,
     trace |-> <<Step(path, list, "len")>>]

EnumeratedValueChecks ==
    << <<"name", "Enumerated value name mismatch">>,
       <<"value", "Enumerated value value mismatch">>,
       <<"is_default", "Enumerated value is_default mismatch">> >>

RECURSIVE _compare_enumerated_values_from(_, _, _, _)
_compare_enumerated_values_from(evs_c, evs_s, path, i) ==
    IF i > Min(Len(evs_c), Len(evs_s)) THEN Passed
    ELSE Then(CompareAttrs(evs_c[i], evs_s[i],
                           Append(path, <<"enumerated_values", i>>), EnumeratedValueChecks),
              _compare_enumerated_values_from(evs_c, evs_s, path, i + 1))

_compare_enumerated_values(evs_c, evs_s, path) ==
    _compare_enumerated_values_from(evs_c, evs_s, path, 1)

EnumeratedValueContainerChecks ==
    << <<"name", "Enumerated value container name mismatch">>,
       <<"header_enum_name", "Enumerated value container header enum name mismatch">>,
       <<"usage", "Enumerated value container usage mismatch">> >>

_compare_enumerated_value_container(evc_c, evc_s, path) ==
    Then(CompareAttrs(evc_c, evc_s, path, EnumeratedValueContainerChecks),
    Then(CompareLen(evc_c, evc_s, path, "enumerated_values", "Enumerated values count mismatch"),
         _compare_enumerated_values(evc_c.enumerated_values, evc_s.enumerated_values, path)))

RECURSIVE _compare_enumerated_value_containers_from(_, _, _, _)
_compare_enumerated_value_containers_from(evcs_c, evcs_s, path, i) ==
    IF i > Min(Len(evcs_c), Len(evcs_s)) THEN Passed
    ELSE Then(_compare_enumerated_value_container(evcs_c[i], evcs_s[i],
                  Append(path, <<"enumerated_value_containers", i>>)),
              _compare_enumerated_value_containers_from(evcs_c, evcs_s, path, i + 1))

_compare_enumerated_value_containers(evcs_c, evcs_s, path) ==
    _compare_enumerated_value_containers_from(evcs_c, evcs_s, path, 1)

\* faulty variant: the access check logs the read action warning
FieldChecksWrongWarning ==
    << <<"name", "Field name mismatch">>,
       <<"lsb", "Field lsb mismatch">>,
       <<"msb", "Field msb mismatch">>,
       <<"bit_offset", "Field bit offset mismatch">>,
       <<"bit_width", "Field bit width mismatch">>,
       <<"bit_range", "Field bit range mismatch">>,
       <<"modified_write_values", "Field modified write values mismatch">>,
       <<"read_action", "Field read action mismatch">>,
       <<"access", "Field read action mismatch">> >>

\* faulty variant: the msb check compares lsb a second time
FieldChecksLsbTwice ==
    << <<"name", "Field name mismatch">>,
       <<"lsb", "Field lsb mismatch">>,
       <<"lsb", "Field msb mismatch">>,
       <<"bit_offset", "Field bit offset mismatch">>,
       <<"bit_width", "Field bit width mismatch">>,
       <<"bit_range", "Field bit range mismatch">>,
       <<"modified_write_values", "Field modified write values mismatch">>,
       <<"read_action", "Field read action mismatch">>,
       <<"access", "Field access mismatch">> >>

FieldChecks ==
    << <<"name", "Field name mismatch">>,
       <<"lsb", "Field lsb mismatch">>,
       <<"msb", "Field msb mismatch">>,
       <<"bit_offset", "Field bit offset mismatch">>,
       <<"bit_width", "Field bit width mismatch">>,
       <<"bit_range", "Field bit range mismatch">>,
       <<"modified_write_values", "Field modified write values mismatch">>,
       <<"read_action", "Field read action mismatch">>,
       <<"access", "Field access mismatch">> >>

_compare_field(field_c, field_s, path) ==
    Then(CompareAttrs(field_c, field_s, path, FieldChecks),
    Then(CompareLen(field_c, field_s, path, "enumerated_value_containers",
                    "Enumerated value containers count mismatch"),
         _compare_enumerated_value_containers(field_c.enumerated_value_containers,
                                              field_s.enumerated_value_containers, path)))

RECURSIVE _compare_fields_from(_, _, _, _)
_compare_fields_from(fields_c, fields_s, path, i) ==
    IF i > Min(Len(fields_c), Len(fields_s)) THEN Passed
    ELSE Then(_compare_field(fields_c[i], fields_s[i], Append(path, <<"fields", i>>)),
              _compare_fields_from(fields_c, fields_s, path, i + 1))

_compare_fields(fields_c, fields_s, path) == _compare_fields_from(fields_c, fields_s, path, 1)

\* faulty variant: the size check is not made before the fields
RegisterChecksSizeLate ==
    << <<"name", "Register name mismatch">>,
       <<"display_name", "Register display name mismatch">>,
       <<"alternate_group", "Register alternate group mismatch">>,
       <<"alternate_register", "Register alternate register mismatch">>,
       <<"address_offset", "Register address offset mismatch">>,
       <<"data_type", "Register data type mismatch">>,
       <<"modified_write_values", "Register modified write values mismatch">>,
       <<"read_action", "Register read action mismatch">>,
       <<"access", "Register access mismatch">>,
       <<"protection", "Register protection mismatch">> >>

RegisterChecks ==
    << <<"name", "Register name mismatch">>,
       <<"display_name", "Register display name mismatch">>,
       <<"alternate_group", "Register alternate group mismatch">>,
       <<"alternate_register", "Register alternate register mismatch">>,
       <<"address_offset", "Register address offset mismatch">>,
       <<"data_type", "Register data type mismatch">>,
       <<"modified_write_values", "Register modified write values mismatch">>,
       <<"read_action", "Register read action mismatch">>,
       <<"size", "Register size mismatch">>,
       <<"access", "Register access mismatch">>,
       <<"protection", "Register protection mismatch">> >>

RegisterChecksAfterFields ==
    << <<"base_address", "Register base address mismatch">> >>

_compare_register(register_c, register_s, path) ==
    Then(CompareAttrs(register_c, register_s, path, RegisterChecks),
    Then(CompareLen(register_c, register_s, path, "fields", "Fields count mismatch"),
    Then(_compare_fields(register_c.fields, register_s.fields, path),
         CompareAttrs(register_c, register_s, path, RegisterChecksAfterFields))))

\* faulty variant: the disabled reset value and reset mask checks are enabled
ClusterChecksWithReset ==
    << <<"name", "Cluster name mismatch">>,
       <<"alternate_cluster", "Cluster alternate cluster mismatch">>,
       <<"header_struct_name", "Cluster header struct name mismatch">>,
       <<"address_offset", "Cluster address offset mismatch">>,
       <<"size", "Cluster size mismatch">>,
       <<"access", "Cluster access mismatch">>,
       <<"protection", "Cluster protection mismatch">>,
       <<"reset_value", "Cluster reset value mismatch">>,
       <<"reset_mask", "Cluster reset mask mismatch">> >>

ClusterChecks ==
    << <<"name", "Cluster name mismatch">>,
       <<"alternate_cluster", "Cluster alternate cluster mismatch">>,
       <<"header_struct_name", "Cluster header struct name mismatch">>,
       <<"address_offset", "Cluster address offset mismatch">>,
       <<"size", "Cluster size mismatch">>,
       <<"access", "Cluster access mismatch">>,
       <<"protection", "Cluster protection mismatch">> >>

ClusterChecksAfterChildren ==
    << <<"base_address", "Cluster base address mismatch">> >>

\* faulty variant: a pair of different classes is compared by name only
TypeMismatchByName(reg_cluster_c, reg_cluster_s, path) ==
    [ok |-> reg_cluster_c.name = reg_cluster_s.name,
     log |-> IF reg_cluster_c.name = reg_cluster_s.name THEN <<>>
             ELSE <<Warning("Register/Cluster type mismatch",
                            reg_cluster_c.kind, reg_cluster_s.kind)>>,
     trace |-> <<Step(path, "name", "ne")>>]

\* the else branch of the isinstance dispatch
TypeMismatch(reg_cluster_c, reg_cluster_s, path) ==
    [ok |-> FALSE,
     log |-> <<Warning("Register/Cluster type mismatch", reg_cluster_c.kind, reg_cluster_s.kind)>>,
     trace |-> <<Step(path, "kind", "isinstance")>>]

RECURSIVE _compare_registers_clusters_from(_, _, _, _)
RECURSIVE _compare_cluster(_, _, _)

_compare_registers_clusters_from(registers_clusters_c, registers_clusters_s, path, i) ==
    IF i > Min(Len(registers_clusters_c), Len(registers_clusters_s)) THEN Passed
    ELSE LET reg_cluster_c == registers_clusters_c[i]
             reg_cluster_s == registers_clusters_s[i]
             here == Append(path, <<"registers_clusters", i>>)
             pair == IF reg_cluster_c.kind = "Register" /\ reg_cluster_s.kind = "Register"
                     THEN _compare_register(reg_cluster_c, reg_cluster_s, here)
                     ELSE IF reg_cluster_c.kind = "Cluster" /\ reg_cluster_s.kind = "Cluster"
                     THEN _compare_cluster(reg_cluster_c, reg_cluster_s, here)
                     ELSE TypeMismatch(reg_cluster_c, reg_cluster_s, here)
         IN Then(pair,
                 _compare_registers_clusters_from(registers_clusters_c, registers_clusters_s,
                                                  path, i + 1))

_compare_registers_clusters(registers_clusters_c, registers_clusters_s, path) ==
    _compare_registers_clusters_from(registers_clusters_c, registers_clusters_s, path, 1)

_compare_cluster(cluster_c, cluster_s, path) ==
    Then(CompareAttrs(cluster_c, cluster_s, path, ClusterChecks),
    Then(CompareLen(cluster_c, cluster_s, path, "registers_clusters",
                    "Registers clusters count mismatch"),
    Then(_compare_registers_clusters(cluster_c.registers_clusters,
                                     cluster_s.registers_clusters, path),
         CompareAttrs(cluster_c, cluster_s, path, ClusterChecksAfterChildren))))

AddressBlockChecks ==
    << <<"offset", "Address block offset mismatch">>,
       <<"size", "Address block size mismatch">>,
       <<"usage", "Address block usage mismatch">>,
       <<"protection", "Address block protection mismatch">> >>

RECURSIVE _compare_address_blocks_from(_, _, _, _)
_compare_address_blocks_from(address_blocks_c, address_blocks_s, path, i) ==
    IF i > Min(Len(address_blocks_c), Len(address_blocks_s)) THEN Passed
    ELSE Then(CompareAttrs(address_blocks_c[i], address_blocks_s[i],
                           Append(path, <<"address_blocks", i>>), AddressBlockChecks),
              _compare_address_blocks_from(address_blocks_c, address_blocks_s, path, i + 1))

_compare_address_blocks(address_blocks_c, address_blocks_s, path) ==
    _compare_address_blocks_from(address_blocks_c, address_blocks_s, path, 1)

InterruptChecks ==
    << <<"name", "Interrupt name mismatch">>,
       <<"value", "Interrupt value mismatch">> >>

RECURSIVE _compare_interrupts_from(_, _, _, _)
_compare_interrupts_from(interrupts_c, interrupts_s, path, i) ==
    IF i > Min(Len(interrupts_c), Len(interrupts_s)) THEN Passed
    ELSE Then(CompareAttrs(interrupts_c[i], interrupts_s[i],
                           Append(path, <<"interrupts", i>>), InterruptChecks),
              _compare_interrupts_from(interrupts_c, interrupts_s, path, i + 1))

_compare_interrupts(interrupts_c, interrupts_s, path) ==
    _compare_interrupts_from(interrupts_c, interrupts_s, path, 1)

\* faulty variant: the base address check is not made before the child lists
PeripheralChecksWithoutBaseAddress ==
    << <<"name", "Name mismatch">>,
       <<"version", "Version mismatch">>,
       <<"alternate_peripheral", "Alternate peripheral mismatch">>,
       <<"group_name", "Group name mismatch">>,
       <<"prepend_to_name", "Prepend to name mismatch">>,
       <<"append_to_name", "Append to name mismatch">>,
       <<"header_struct_name", "Header struct name mismatch">> >>

PeripheralChecks ==
    << <<"name", "Name mismatch">>,
       <<"version", "Version mismatch">>,
       <<"alternate_peripheral", "Alternate peripheral mismatch">>,
       <<"group_name", "Group name mismatch">>,
       <<"prepend_to_name", "Prepend to name mismatch">>,
       <<"append_to_name", "Append to name mismatch">>,
       <<"header_struct_name", "Header struct name mismatch">>,
       <<"base_address", "Base address mismatch">> >>

\* faulty variant: the access check is missing
PeripheralChecksWithoutAccess ==
    << <<"size", "Size mismatch">>,
       <<"protection", "Protection mismatch">> >>

PeripheralChecksAfterInterrupts ==
    << <<"size", "Size mismatch">>,
       <<"access", "Access mismatch">>,
       <<"protection", "Protection mismatch">> >>

\* one iteration of the loop over zip(svdconv_peripherals, svdsuite_peripherals)
_compare_peripheral_pair(peri_c, peri_s, path) ==
    Then(CompareAttrs(peri_c, peri_s, path, PeripheralChecks),
    Then(CompareLen(peri_c, peri_s, path, "address_blocks", "Address blocks count mismatch"),
    Then(_compare_address_blocks(peri_c.address_blocks, peri_s.address_blocks, path),
    Then(CompareLen(peri_c, peri_s, path, "interrupts", "Interrupts count mismatch"),
    Then(_compare_interrupts(peri_c.interrupts, peri_s.interrupts, path),
    Then(CompareAttrs(peri_c, peri_s, path, PeripheralChecksAfterInterrupts),
    Then(CompareLen(peri_c, peri_s, path, "registers_clusters",
                    "Registers clusters count mismatch"),
         _compare_registers_clusters(peri_c.registers_clusters,
                                     peri_s.registers_clusters, path))))))))

\* the number of pairs zip() yields
ZipLen(peripherals_c, peripherals_s) == Min(Len(peripherals_c), Len(peripherals_s))

RECURSIVE _compare_peripherals_from(_, _, _)
_compare_peripherals_from(peripherals_c, peripherals_s, i) ==
    IF i > ZipLen(peripherals_c, peripherals_s) THEN Passed
    ELSE Then(_compare_peripheral_pair(peripherals_c[i], peripherals_s[i],
                                       << <<"peripherals", i>> >>),
              _compare_peripherals_from(peripherals_c, peripherals_s, i + 1))

_compare_peripherals(peripherals_c, peripherals_s) ==
    _compare_peripherals_from(peripherals_c, peripherals_s, 1)

(***************************************************************************)
(* The forests given to Compare.  A forest is addressed as the children of *)
(* a root; a path is the sequence of <<list attribute, index>> steps from  *)
(* the root to an object.                                                  *)
(***************************************************************************)
Root(peripherals) == [kind |-> "Root", peripherals |-> peripherals]

RECURSIVE GetAt(_, _)
GetAt(node, path) ==
    IF path = <<>> THEN node
    ELSE GetAt(node[Head(path)[1]][Head(path)[2]], Tail(path))

RECURSIVE ElemPaths(_, _)
ElemPaths(node, path) ==
    UNION {UNION {{Append(path, <<l, i>>)} \cup ElemPaths(node[l][i], Append(path, <<l, i>>))
                  : i \in DOMAIN node[l]}
           : l \in SeqRange(ListAttrs(node.kind))}

IsPrefix(p, q) == Len(p) <= Len(q) /\ SubSeq(q, 1, Len(p)) = p

ModeEnum ==
    EnumeratedValueContainer("MODE", "READ_WRITE",
        <<EnumeratedValue("OFF", 0, FALSE), EnumeratedValue("ON", 1, FALSE)>>)

RECURSIVE ChannelCluster(_, _)
ChannelCluster(depth, parent_base) ==
    Cluster("CH", 16, parent_base + 16,
        <<Register("DATA", 0, parent_base + 16, <<Field("VAL", 0, 8, <<>>)>>)>>
        \o (IF depth > 1 THEN <<ChannelCluster(depth - 1, parent_base + 16)>> ELSE <<>>))

Timer ==
    Peripheral("TIMER0", 4096,
        <<AddressBlock(0, 1024, "REGISTERS")>>,
        <<Interrupt("TIMER0_IRQ", 3)>>,
        <<Register("CTRL", 0, 4096, <<Field("EN", 0, 1, <<ModeEnum>>), Field("DIV", 1, 2, <<>>)>>),
          ChannelCluster(NestDepth, 4096)>>)

Uart ==
    Peripheral("UART0", 8192,
        <<AddressBlock(0, 512, "REGISTERS")>>,
        <<>>,
        <<Register("STAT", 0, 8192, <<Field("RDY", 0, 1, <<>>)>>)>>)

Dma ==
    Peripheral("DMA", 12288,
        <<AddressBlock(0, 256, "REGISTERS")>>,
        <<Interrupt("DMA_IRQ", 5)>>,
        <<Register("CFG", 0, 12288, <<Field("EN", 0, 1, <<>>)>>),
          Cluster("CH", 16, 12304, <<Register("DATA", 0, 12304, <<>>)>>)>>)

\* the forests the two producers are given, and in how many places their
\* outputs may differ: any single difference on the larger forests, any two
\* differences on the small one
Inputs ==
    {[peripherals |-> <<Timer>>, differences |-> 1],
     [peripherals |-> <<Timer, Uart>>, differences |-> 1],
     [peripherals |-> <<Dma>>, differences |-> 2]}

IntAttrs ==
    {"value", "bit_offset", "bit_width", "lsb", "msb", "address_offset", "size",
     "reset_value", "reset_mask", "base_address", "offset", "end_address",
     "end_address_effective", "peripheral_size", "peripheral_size_effective",
     "cluster_size"}

\* the attributes of an object that are not lists of child objects
ScalarAttrs(node) == DOMAIN node \ ({"kind"} \cup SeqRange(ListAttrs(node.kind)))

\* another value of the attribute's type
OtherValue(attr, v) ==
    CASE attr \in IntAttrs -> v + 1
      [] attr = "is_default" -> ~v
      [] attr = "bit_range" -> <<v[1] + 1, v[2]>>
      [] attr = "registers" -> Append(v, "CTRL")
      [] attr = "access" -> IF v = "READ_ONLY" THEN "READ_WRITE" ELSE "READ_ONLY"
      [] OTHER -> IF v = "x" THEN "y" ELSE "x"

\* a fresh object for the list
NewChild(list) ==
    CASE list = "peripherals" -> Peripheral("NEW", 12288, <<>>, <<>>, <<>>)
      [] list = "address_blocks" -> AddressBlock(2048, 16, "RESERVED")
      [] list = "interrupts" -> Interrupt("NEW_IRQ", 9)
      [] list = "registers_clusters" -> Register("NEW", 64, 64, <<>>)
      [] list = "fields" -> Field("NEW", 8, 1, <<>>)
      [] list = "enumerated_value_containers" -> EnumeratedValueContainer("NEW", "READ", <<>>)
      [] list = "enumerated_values" -> EnumeratedValue("NEW", 3, FALSE)

\* the same position produced as the other member of the Register | Cluster union
OtherKind(rc) ==
    IF rc.kind = "Register"
    THEN Cluster(rc.name, rc.address_offset, rc.base_address, <<>>)
    ELSE Register(rc.name, rc.address_offset, rc.base_address, <<>>)

\* the single differences a producer's forest may show against forest root
Edits(root) ==
    LET paths == ElemPaths(root, <<>>)
    IN UNION {{[op |-> "set", path |-> p, attr |-> a] : a \in ScalarAttrs(GetAt(root, p))}
              : p \in paths}
       \cup UNION {{[op |-> o, path |-> p, attr |-> l]
                    : o \in {"add", "drop"}, l \in SeqRange(ListAttrs(GetAt(root, p).kind))}
                   : p \in paths \cup {<<>>}}
       \cup {[op |-> "retype", path |-> p, attr |-> "kind"]
             : p \in {q \in paths : GetAt(root, q).kind \in {"Register", "Cluster"}}}

EditHere(node, e) ==
    CASE e.op = "set" -> [node EXCEPT ![e.attr] = OtherValue(e.attr, @)]
      [] e.op = "add" -> [node EXCEPT ![e.attr] = Append(@, NewChild(e.attr))]
      [] e.op = "drop" -> [node EXCEPT ![e.attr] = SubSeq(@, 1, Len(@) - 1)]
      [] e.op = "retype" -> OtherKind(node)

RECURSIVE EditAt(_, _, _)
EditAt(node, path, e) ==
    IF path = <<>> THEN EditHere(node, e)
    ELSE [node EXCEPT ![Head(path)[1]] =
             [@ EXCEPT ![Head(path)[2]] = EditAt(@, Tail(path), e)]]

Edit(peripherals, e) == EditAt(Root(peripherals), e.path, e).peripherals

\* the sequences of at most n single differences, each applicable after the
\* ones before it
RECURSIVE EditSeqs(_, _)
EditSeqs(peripherals, n) ==
    IF n = 0 THEN {<<>>}
    ELSE {<<>>} \cup
         UNION {{<<e>> \o rest : rest \in EditSeqs(Edit(peripherals, e), n - 1)}
                : e \in Edits(Root(peripherals))}

RECURSIVE EditAll(_, _)
EditAll(peripherals, es) ==
    IF es = <<>> THEN peripherals ELSE EditAll(Edit(peripherals, Head(es)), Tail(es))

(***************************************************************************)
(* The text of the reference tool.  A line of its output is modelled by    *)
(* what the parser looks at: the number of leading whitespace characters   *)
(* (indent) and the shape of the stripped line (tag):                      *)
(*   "separator"  the line holds the run of ^ that separates peripherals   *)
(*   "blank"      line.strip() == ""                                       *)
(*   "header"     the stripped line starts with "===": key is the element  *)
(*                word after it and value the name the header's regular    *)
(*                expression captures ("" when it does not match)          *)
(*   "pair"       the line holds a colon: key and value are the two halves *)
(*                of split(":", 1), stripped                               *)
(*   "text"       anything else                                            *)
(* A value is a word or a numeral, a numeral being its prefix ("0x", "0b"  *)
(* or none) and its digits.                                                *)
(***************************************************************************)
Word(word) == [kind |-> "word", word |-> word]
Numeral(prefix, digits) == [kind |-> "numeral", prefix |-> prefix, digits |-> digits]

Separator == [indent |-> 0, tag |-> "separator", key |-> "", value |-> Word("")]
Blank(indent) == [indent |-> indent, tag |-> "blank", key |-> "", value |-> Word("")]
Header(indent, element, name) ==
    [indent |-> indent, tag |-> "header", key |-> element, value |-> Word(name)]
Pair(indent, key, value) == [indent |-> indent, tag |-> "pair", key |-> key, value |-> value]
Text(indent) == [indent |-> indent, tag |-> "text", key |-> "", value |-> Word("")]

\* line.strip().startswith(prefix) for the prefixes the parser tests
StartsWith(line, prefix) ==
    CASE prefix = "===" -> line.tag = "header"
      [] prefix \in {"Address Block:", "Interrupt:", "Enum:"} ->
            line.tag = "pair" /\ line.key \o ":" = prefix
      [] prefix \in {"=== Register", "=== Cluster", "=== Field", "=== Enum Container:"} ->
            line.tag = "header" /\ "=== " \o line.key = prefix

\* m.group(1).strip() if m else <unknown>, for re.match(r"=== <element> (.+) ===")
HeaderName(line, element, unknown) ==
    IF line.tag = "header" /\ line.key = element /\ line.value.word # ""
    THEN line.value.word ELSE unknown

(***************************************************************************)
(* Exceptions: an operation either returns a value or raises.              *)
(***************************************************************************)
Return(value) == [exc |-> "None", value |-> value]
Raise(exc) == [exc |-> exc]

\* a name for a value, evaluated once: Body of the value
With(value, Body(_)) == CHOOSE out \in {Body(v) : v \in {value}} : TRUE

\* the exception of the first of the evaluations, in evaluation order, that
\* raises
FirstRaised(evaluations) ==
    With({i \in DOMAIN evaluations : evaluations[i].exc # "None"},
         LAMBDA raising :
             IF raising = {} THEN "None"
             ELSE evaluations[CHOOSE i \in raising : \A j \in raising : i <= j].exc)

(***************************************************************************)
(* int(): the digits of a numeral in the given base.                       *)
(***************************************************************************)
RECURSIVE DigitsValue(_, _, _)
DigitsValue(digits, base, acc) ==
    IF digits = <<>> THEN acc
    ELSE DigitsValue(Tail(digits), base, acc * base + Head(digits))

\* the digits int() sees once the parser has removed the prefix it expects:
\* a prefix that stays is read as digits where the base allows it ("0b" is
\* the hexadecimal digits 0 and 11) and is not a number otherwise
IntOf(value, base, removed) ==
    IF value.kind # "numeral" \/ value.digits = <<>> THEN Raise("ValueError")
    ELSE LET kept == IF value.prefix = removed \/ value.prefix = "" THEN <<>>
                     ELSE IF value.prefix = "0b" /\ base = 16 THEN <<0, 11>>
                     ELSE <<base>>
             digits == kept \o value.digits
         IN IF \A i \in DOMAIN digits : digits[i] < base
            THEN Return(DigitsValue(digits, base, 0))
            ELSE Raise("ValueError")

\* int(data.get(key, "0").replace("0x", ""), 16) if key in data else 0
HexAttr(data, key) ==
    IF key \in DOMAIN data THEN IntOf(data[key], 16, "0x") ELSE Return(0)

\* int(data.get(key, "0"))
DecAttr(data, key) ==
    IF key \in DOMAIN data THEN IntOf(data[key], 10, "") ELSE Return(0)

\* data.get(key) or None
OrNone(data, key) ==
    IF key \in DOMAIN data /\ data[key].kind = "word" /\ data[key].word # ""
    THEN data[key].word ELSE "None"

\* data.get(key, "") handed to one of the token tables below
Token(data, key) ==
    IF key \in DOMAIN data /\ data[key].kind = "word" THEN data[key].word
    ELSE IF key \in DOMAIN data THEN "<numeral>" ELSE ""

_get_access_type(access) ==
    IF access \in {"READ_ONLY", "WRITE_ONLY", "READ_WRITE", "WRITE_ONCE", "READ_WRITE_ONCE"}
    THEN Return(access) ELSE Raise("NotImplementedError")

\* faulty variant: a protection token that is not in the table reads as ANY
_get_protection_type_or_default(protection) ==
    CASE protection = "SECURE" -> Return("SECURE")
      [] protection = "NONSECURE" -> Return("NON_SECURE")
      [] protection = "PRIVILEGED" -> Return("PRIVILEGED")
      [] OTHER -> Return("ANY")

_get_protection_type(protection) ==
    CASE protection = "UNDEF" -> Return("ANY")
      [] protection = "SECURE" -> Return("SECURE")
      [] protection = "NONSECURE" -> Return("NON_SECURE")
      [] protection = "PRIVILEGED" -> Return("PRIVILEGED")
      [] OTHER -> Raise("NotImplementedError")

_get_addr_block_usage(usage) ==
    IF usage \in {"REGISTERS", "BUFFER", "RESERVED"}
    THEN Return(usage) ELSE Raise("NotImplementedError")

_get_modified_write_value(mod_write_val) ==
    CASE mod_write_val = "undefined" -> Return("MODIFY")
      [] mod_write_val = "oneToClear" -> Return("ONE_TO_CLEAR")
      [] mod_write_val = "oneToSet" -> Return("ONE_TO_SET")
      [] mod_write_val = "oneToToggle" -> Return("ONE_TO_TOGGLE")
      [] mod_write_val = "zeroToClear" -> Return("ZERO_TO_CLEAR")
      [] mod_write_val = "zeroToSet" -> Return("ZERO_TO_SET")
      [] mod_write_val = "zeroToToggle" -> Return("ZERO_TO_TOGGLE")
      [] mod_write_val = "clear" -> Return("CLEAR")
      [] mod_write_val = "set" -> Return("SET")
      [] mod_write_val = "modify" -> Return("MODIFY")
      [] OTHER -> Raise("NotImplementedError")

_get_read_action(action) ==
    CASE action = "UNDEF" -> Return("None")
      [] action = "CLEAR" -> Return("CLEAR")
      [] action = "SET" -> Return("SET")
      [] action = "MODIFY" -> Return("MODIFY")
      [] action = "MODIFEXT" -> Return("MODIFY_EXTERNAL")
      [] OTHER -> Raise("NotImplementedError")

_get_data_type(data_type) ==
    IF data_type = "" THEN Return("None") ELSE Raise("NotImplementedError")

_get_enum_usage(usage) ==
    CASE usage \in {"UNDEF", "READWRITE"} -> Return("READ_WRITE")
      [] usage = "READ" -> Return("READ")
      [] usage = "WRITE" -> Return("WRITE")
      [] OTHER -> Raise("NotImplementedError")

(***************************************************************************)
(* dict and sorted().                                                      *)
(***************************************************************************)
\* data[key] = value
Put(data, key, value) ==
    With(data, LAMBDA d : [k \in DOMAIN d \cup {key} |-> IF k = key THEN value ELSE d[k]])

\* the names of the model in str order (by code point)
Names ==
    <<"A", "B", "BOGUS", "CH", "CTRL", "DATA", "DIV", "DMA", "EN", "STAT", "TIMER0", "UART0",
      "UnknownCluster", "UnknownField", "UnknownPeripheral", "UnknownRegister", "X">>

NameRank(name) == CHOOSE i \in DOMAIN Names : Names[i] = name

\* tuple comparison a <= b
RECURSIVE KeyLeq(_, _)
KeyLeq(a, b) ==
    IF a = <<>> THEN TRUE
    ELSE IF b = <<>> THEN FALSE
    ELSE IF Head(a) # Head(b) THEN Head(a) < Head(b)
    ELSE KeyLeq(Tail(a), Tail(b))

\* sorted(list, key=...), keys holding the key of each element: the elements
\* in the order of their keys, elements of equal keys in the order they have
\* in the list
sorted(list, keys) ==
    With([i \in DOMAIN list |->
             1 + Cardinality({j \in DOMAIN list :
                                 IF keys[j] = keys[i] THEN j < i
                                 ELSE KeyLeq(keys[j], keys[i])})],
         LAMBDA place : [p \in DOMAIN list |-> list[CHOOSE i \in DOMAIN list : place[i] = p]])

(***************************************************************************)
(* SVDConvParser.  A sub-parser returns the object it built and the index  *)
(* of the first line it did not consume, or raises.  Lines are numbered    *)
(* from 1: Python's index i is i + 1 here and index < len(lines) is        *)
(* index <= Len(lines).                                                    *)
(***************************************************************************)
Parsed(value, index) == [exc |-> "None", value |-> value, index |-> index]

\* None where an object is expected, and None as the value of an
\* EnumeratedValue (an int otherwise)
NoObject == [kind |-> "None"]
NoValue == -1

\* the condition on which the loop over the lines of a block breaks
Ends(block, line) ==
    CASE block = "Peripheral" ->
            \/ StartsWith(line, "Address Block:") \/ StartsWith(line, "Interrupt:")
            \/ StartsWith(line, "===")
      [] block \in {"Address Block", "Interrupt"} ->
            \/ StartsWith(line, "Interrupt:") \/ StartsWith(line, "Address Block:")
            \/ StartsWith(line, "===")
      [] block \in {"Register", "Cluster"} -> StartsWith(line, "===")
      [] block = "Field" -> line.tag = "blank" \/ StartsWith(line, "===")
      [] block = "Enum Container" ->
            line.tag = "blank" \/ StartsWith(line, "===") \/ StartsWith(line, "Enum:")
      [] block = "Enum" ->
            \/ line.tag = "blank" \/ StartsWith(line, "===") \/ line.indent = 0
            \/ StartsWith(line, "Enum:")

\* the loop that collects the "key: value" lines of a block into data, up to
\* the first line that ends the block; the loops of parse_address_block and
\* parse_interrupt unpack split(":", 1) of every line, the others skip a
\* line without a colon
RECURSIVE ReadPairs(_, _, _, _)
ReadPairs(lines, index, data, block) ==
    IF index > Len(lines) \/ Ends(block, lines[index])
    THEN [exc |-> "None", data |-> data, index |-> index]
    ELSE IF lines[index].tag = "pair"
         THEN With(Put(data, lines[index].key, lines[index].value),
                   LAMBDA d : ReadPairs(lines, index + 1, d, block))
         ELSE IF block \in {"Address Block", "Interrupt"} THEN Raise("ValueError")
         ELSE ReadPairs(lines, index + 1, data, block)

\* data.get("isDefault", "false").lower() in ("true", "yes", "1")
IsDefault(data) ==
    /\ "isDefault" \in DOMAIN data
    /\ \/ data["isDefault"] \in {Word(w) : w \in {"true", "True", "TRUE", "yes", "Yes", "YES"}}
       \/ data["isDefault"] = Numeral("", <<1>>)

\* faulty variant: int(bin_value.replace("0b", "")), the digits read in
\* base ten
parse_enum_decimal(lines, index) ==
    IF ~StartsWith(lines[index], "Enum:") THEN Parsed(NoObject, index)
    ELSE With(ReadPairs(lines, index + 1, <<>>, "Enum"),
              LAMBDA read :
                  LET bin_value == IF "value" \in DOMAIN read.data
                                   THEN IntOf(read.data["value"], 10, "0b") ELSE Return(0)
                      int_value == IF bin_value.exc = "ValueError" THEN 0 ELSE bin_value.value
                      is_default == IsDefault(read.data)
                  IN Parsed(EnumeratedValue(Token(read.data, "name"),
                                            IF is_default THEN NoValue ELSE int_value,
                                            is_default),
                            read.index))

parse_enum(lines, index) ==
    IF ~StartsWith(lines[index], "Enum:") THEN Parsed(NoObject, index)
    ELSE With(ReadPairs(lines, index + 1, <<>>, "Enum"),
              LAMBDA read :
                  LET bin_value == IF "value" \in DOMAIN read.data
                                   THEN IntOf(read.data["value"], 2, "0b") ELSE Return(0)
                      int_value == IF bin_value.exc = "ValueError" THEN 0 ELSE bin_value.value
                      is_default == IsDefault(read.data)
                  IN Parsed(EnumeratedValue(Token(read.data, "name"),
                                            IF is_default THEN NoValue ELSE int_value,
                                            is_default),
                            read.index))

\* the elements of a set of integers in increasing order
Ascending(S) ==
    With(S, LAMBDA s : [i \in 1 .. Cardinality(s) |->
                            CHOOSE x \in s : Cardinality({y \in s : y < x}) = i - 1])

\* the orders in which iterating over a set of integers may yield them
SetOrders == {"ascending", "descending", "rotated"}

\* for value in S, the language leaving the order open
SetIteration(S, order) ==
    With(Ascending(S),
         LAMBDA up :
             CASE order = "ascending" -> up
               [] order = "descending" -> [i \in DOMAIN up |-> up[Len(up) + 1 - i]]
               [] order = "rotated" -> IF up = <<>> THEN up ELSE Append(Tail(up), Head(up)))

\* faulty variant: 2 ** (msb - lsb), one bit short of the field's width
RECURSIVE Pow2OneBitShort(_)
Pow2OneBitShort(n) == IF n <= 1 THEN 1 ELSE 2 * Pow2OneBitShort(n - 1)

RECURSIVE Pow2(_)
Pow2(n) == IF n <= 0 THEN 1 ELSE 2 * Pow2(n - 1)

\* faulty variant: the default entries stay in the list that is returned
_extend_enumerated_values_keeping_default(enumerated_values, default, lsb, msb, order) ==
    LET covered_values == {enumerated_values[i].value : i \in
                               {j \in DOMAIN enumerated_values :
                                    enumerated_values[j].value # NoValue}}
        all_possible_values == 0 .. (Pow2(msb - lsb + 1) - 1)
    IN With(SetIteration(all_possible_values \ covered_values, order),
            LAMBDA uncovered_values :
                SelectSeq(enumerated_values
                          \o [i \in DOMAIN uncovered_values |->
                                 EnumeratedValue(
                                     default.name \o "_" \o ToString(uncovered_values[i]),
                                     uncovered_values[i], FALSE)],
                          LAMBDA ev : TRUE))

_extend_enumerated_values_with_default(enumerated_values, default, lsb, msb, order) ==
    LET covered_values == {enumerated_values[i].value : i \in
                               {j \in DOMAIN enumerated_values :
                                    enumerated_values[j].value # NoValue}}
        all_possible_values == 0 .. (Pow2(msb - lsb + 1) - 1)
    IN With(SetIteration(all_possible_values \ covered_values, order),
            LAMBDA uncovered_values :
                SelectSeq(enumerated_values
                          \o [i \in DOMAIN uncovered_values |->
                                 EnumeratedValue(
                                     default.name \o "_" \o ToString(uncovered_values[i]),
                                     uncovered_values[i], FALSE)],
                          LAMBDA ev : ~ev.is_default))

\* the while loop of parse_enum_container that parses the Enum blocks
RECURSIVE parse_enums(_, _, _)
parse_enums(lines, index, enumerated_values) ==
    IF index <= Len(lines) /\ StartsWith(lines[index], "Enum:")
    THEN With(parse_enum(lines, index),
              LAMBDA enum_obj :
                  parse_enums(lines, enum_obj.index,
                              IF enum_obj.value # NoObject
                              THEN Append(enumerated_values, enum_obj.value)
                              ELSE enumerated_values))
    ELSE Parsed(enumerated_values, index)

\* faulty variant: the enumerated values of a container are left in the
\* order the expansion appended them in
EnumeratedValueKeyUnsorted(ev) == <<0>>

\* key=lambda ev: ev.value if ev.value is not None else 0
EnumeratedValueKey(ev) == <<IF ev.value = NoValue THEN 0 ELSE ev.value>>

parse_enum_container(lines, index, lsb, msb, order) ==
    With(ReadPairs(lines, index + 1,
                   [k \in {"name"} |-> Word(HeaderName(lines[index], "Enum Container:", "None"))],
                   "Enum Container"),
         LAMBDA read :
    With(_get_enum_usage(Token(read.data, "usage")),
         LAMBDA usage :
             IF usage.exc # "None" THEN Raise(usage.exc)
             ELSE
    With(parse_enums(lines, read.index, <<>>),
         LAMBDA enums :
             LET defaults == {i \in DOMAIN enums.value : enums.value[i].is_default}
                 default_enum == enums.value[CHOOSE i \in defaults : \A j \in defaults : i <= j]
                 enumerated_values ==
                     IF defaults # {}
                     THEN _extend_enumerated_values_with_default(enums.value, default_enum,
                                                                 lsb, msb, order)
                     ELSE enums.value
             IN Parsed([EnumeratedValueContainer(Token(read.data, "name"), usage.value,
                            sorted(enumerated_values,
                                   [i \in DOMAIN enumerated_values |->
                                       EnumeratedValueKey(enumerated_values[i])]))
                           EXCEPT !.header_enum_name = OrNone(read.data, "headerEnumName")],
                       enums.index))))

\* the while loop of parse_field that parses the Enum Container blocks
RECURSIVE parse_enum_containers(_, _, _, _, _, _)
parse_enum_containers(lines, index, lsb, msb, order, containers) ==
    IF index <= Len(lines) /\ StartsWith(lines[index], "=== Enum Container:")
    THEN With(parse_enum_container(lines, index, lsb, msb, order),
              LAMBDA enum_container :
                  IF enum_container.exc # "None" THEN Raise(enum_container.exc)
                  ELSE parse_enum_containers(lines, enum_container.index, lsb, msb, order,
                                             Append(containers, enum_container.value)))
    ELSE Parsed(containers, index)

parse_field(lines, index, order) ==
    With(ReadPairs(lines, index + 1,
                   [k \in {"name"} |-> Word(HeaderName(lines[index], "Field", "UnknownField"))],
                   "Field"),
         LAMBDA read :
    With([bit_offset |-> DecAttr(read.data, "bitOffset"),
          bit_width |-> DecAttr(read.data, "bitWidth"),
          access |-> _get_access_type(Token(read.data, "access")),
          modified_write_values |->
              _get_modified_write_value(Token(read.data, "modifiedWriteValues")),
          read_action |-> _get_read_action(Token(read.data, "readAction"))],
         LAMBDA arg :
    With(FirstRaised(<<arg.bit_offset, arg.bit_width, arg.access, arg.modified_write_values,
                       arg.read_action>>),
         LAMBDA raised :
             IF raised # "None" THEN Raise(raised)
             ELSE
    With(parse_enum_containers(lines, read.index, arg.bit_offset.value,
                               arg.bit_offset.value + arg.bit_width.value - 1, order, <<>>),
         LAMBDA containers :
             IF containers.exc # "None" THEN Raise(containers.exc)
             ELSE Parsed([Field(Token(read.data, "name"), arg.bit_offset.value,
                                arg.bit_width.value, containers.value)
                             EXCEPT !.access = arg.access.value,
                                    !.modified_write_values = arg.modified_write_values.value,
                                    !.read_action = arg.read_action.value],
                         containers.index)))))

\* the while loop of parse_register that parses the Field blocks
RECURSIVE parse_fields(_, _, _, _)
parse_fields(lines, index, order, fields) ==
    IF index <= Len(lines) /\ StartsWith(lines[index], "=== Field")
    THEN With(parse_field(lines, index, order),
              LAMBDA field_obj :
                  IF field_obj.exc # "None" THEN Raise(field_obj.exc)
                  ELSE parse_fields(lines, field_obj.index, order,
                                    Append(fields, field_obj.value)))
    ELSE Parsed(fields, index)

\* faulty variant: the fields of a register are left in the order of the text
FieldKeyUnsorted(f) == <<0>>

\* key=lambda f: (f.lsb, f.name)
FieldKey(f) == <<f.lsb, NameRank(f.name)>>
\* key=lambda rc: (rc.address_offset, rc.name)
RegisterClusterKey(rc) == <<rc.address_offset, NameRank(rc.name)>>

parse_register(lines, index, order) ==
    With(ReadPairs(lines, index + 1,
                   [k \in {"name"} |->
                       Word(HeaderName(lines[index], "Register", "UnknownRegister"))],
                   "Register"),
         LAMBDA read :
    With([address_offset |-> HexAttr(read.data, "addressOffset"),
          data_type |-> _get_data_type(Token(read.data, "dataType")),
          modified_write_values |->
              _get_modified_write_value(Token(read.data, "modifiedWriteValues")),
          read_action |-> _get_read_action(Token(read.data, "readAction")),
          size |-> DecAttr(read.data, "size effective"),
          access |-> _get_access_type(Token(read.data, "access")),
          protection |-> _get_protection_type(Token(read.data, "protection")),
          reset_value |-> HexAttr(read.data, "resetValue"),
          reset_mask |-> HexAttr(read.data, "resetMask"),
          base_address |-> HexAttr(read.data, "Absolute Address")],
         LAMBDA arg :
    With(FirstRaised(<<arg.address_offset, arg.data_type, arg.modified_write_values,
                       arg.read_action, arg.size, arg.access, arg.protection,
                       arg.reset_value, arg.reset_mask, arg.base_address>>),
         LAMBDA raised :
             IF raised # "None" THEN Raise(raised)
             ELSE
    With(parse_fields(lines, read.index, order, <<>>),
         LAMBDA fields :
             IF fields.exc # "None" THEN Raise(fields.exc)
             ELSE Parsed([Register(Token(read.data, "name"), arg.address_offset.value,
                                   arg.base_address.value, sorted(fields.value,
                                                                  [i \in DOMAIN fields.value |->
                                                                      FieldKey(fields.value[i])]))
                             EXCEPT !.display_name = OrNone(read.data, "displayName"),
                                    !.alternate_group = OrNone(read.data, "alternateGroup"),
                                    !.alternate_register = OrNone(read.data, "alternateRegister"),
                                    !.data_type = arg.data_type.value,
                                    !.modified_write_values = arg.modified_write_values.value,
                                    !.read_action = arg.read_action.value,
                                    !.size = arg.size.value,
                                    !.access = arg.access.value,
                                    !.protection = arg.protection.value,
                                    !.reset_value = arg.reset_value.value,
                                    !.reset_mask = arg.reset_mask.value],
                         fields.index)))))

WHITESPACES == 4

get_current_depth(line) ==
    IF ~StartsWith(line, "===") THEN Raise("ValueError")
    ELSE IF line.indent % WHITESPACES # 0 THEN Raise("ValueError")
    ELSE Return(line.indent \div WHITESPACES)

RECURSIVE parse_cluster(_, _, _)
RECURSIVE parse_cluster_children(_, _, _, _, _)

parse_register_or_cluster(lines, index, order) ==
    IF StartsWith(lines[index], "=== Register") THEN parse_register(lines, index, order)
    ELSE IF StartsWith(lines[index], "=== Cluster") THEN parse_cluster(lines, index, order)
    ELSE Parsed(NoObject, index + 1)

\* the while loop of parse_cluster that parses the blocks under the cluster
parse_cluster_children(lines, index, order, cluster_depth, registers_clusters) ==
    IF index > Len(lines) THEN Parsed(registers_clusters, index)
    ELSE IF StartsWith(lines[index], "===")
    THEN With(get_current_depth(lines[index]),
              LAMBDA depth :
                  IF depth.exc # "None" THEN Raise(depth.exc)
                  ELSE IF depth.value = cluster_depth THEN Parsed(registers_clusters, index)
                  ELSE With(parse_register_or_cluster(lines, index, order),
                            LAMBDA element :
                                IF element.exc # "None" THEN Raise(element.exc)
                                ELSE parse_cluster_children(lines, element.index, order,
                                         cluster_depth,
                                         IF element.value # NoObject
                                         THEN Append(registers_clusters, element.value)
                                         ELSE registers_clusters)))
    ELSE parse_cluster_children(lines, index + 1, order, cluster_depth, registers_clusters)

parse_cluster(lines, index, order) ==
    With(get_current_depth(lines[index]),
         LAMBDA cluster_depth :
             IF cluster_depth.exc # "None" THEN Raise(cluster_depth.exc)
             ELSE
    With(ReadPairs(lines, index + 1,
                   [k \in {"name"} |->
                       Word(HeaderName(lines[index], "Cluster", "UnknownCluster"))],
                   "Cluster"),
         LAMBDA read :
    With(parse_cluster_children(lines, read.index, order, cluster_depth.value, <<>>),
         LAMBDA children :
             IF children.exc # "None" THEN Raise(children.exc)
             ELSE
    With([address_offset |-> HexAttr(read.data, "addressOffset"),
          size |-> DecAttr(read.data, "size effective"),
          access |-> _get_access_type(Token(read.data, "access")),
          protection |-> _get_protection_type(Token(read.data, "protection")),
          reset_value |-> HexAttr(read.data, "resetValue"),
          reset_mask |-> HexAttr(read.data, "resetMask"),
          base_address |-> HexAttr(read.data, "Absolute Address")],
         LAMBDA arg :
    With(FirstRaised(<<arg.address_offset, arg.size, arg.access, arg.protection,
                       arg.reset_value, arg.reset_mask, arg.base_address>>),
         LAMBDA raised :
             IF raised # "None" THEN Raise(raised)
             ELSE Parsed([Cluster(Token(read.data, "name"), arg.address_offset.value,
                                  arg.base_address.value,
                                  sorted(children.value,
                                         [i \in DOMAIN children.value |->
                                             RegisterClusterKey(children.value[i])]))
                             EXCEPT !.alternate_cluster = OrNone(read.data, "alternateCluster"),
                                    !.header_struct_name = OrNone(read.data, "headerStructName"),
                                    !.size = arg.size.value,
                                    !.access = arg.access.value,
                                    !.protection = arg.protection.value,
                                    !.reset_value = arg.reset_value.value,
                                    !.reset_mask = arg.reset_mask.value],
                         children.index))))))

parse_address_block(lines, index) ==
    With(ReadPairs(lines, index + 1, <<>>, "Address Block"),
         LAMBDA read :
             IF read.exc # "None" THEN Raise(read.exc)
             ELSE
    With([offset |-> HexAttr(read.data, "Offset"),
          size |-> DecAttr(read.data, "Size"),
          usage |-> _get_addr_block_usage(Token(read.data, "Usage")),
          protection |-> _get_protection_type(Token(read.data, "Protection"))],
         LAMBDA arg :
    With(FirstRaised(<<arg.offset, arg.size, arg.usage, arg.protection>>),
         LAMBDA raised :
             IF raised # "None" THEN Raise(raised)
             ELSE Parsed([AddressBlock(arg.offset.value, arg.size.value, arg.usage.value)
                             EXCEPT !.protection = arg.protection.value],
                         read.index))))

\* faulty variant: the index of the line after "Interrupt:" is returned, the
\* lines the loop has read are handed back to the caller
parse_interrupt_rewinding(lines, index) ==
    With(ReadPairs(lines, index + 1, <<>>, "Interrupt"),
         LAMBDA read :
             IF read.exc # "None" THEN Raise(read.exc)
             ELSE
    With(DecAttr(read.data, "Value"),
         LAMBDA value :
             IF value.exc # "None" THEN Raise(value.exc)
             ELSE Parsed(Interrupt(Token(read.data, "Name"), value.value), index + 1)))

parse_interrupt(lines, index) ==
    With(ReadPairs(lines, index + 1, <<>>, "Interrupt"),
         LAMBDA read :
             IF read.exc # "None" THEN Raise(read.exc)
             ELSE
    With(DecAttr(read.data, "Value"),
         LAMBDA value :
             IF value.exc # "None" THEN Raise(value.exc)
             ELSE Parsed(Interrupt(Token(read.data, "Name"), value.value), read.index)))

\* the second while loop of parse_peripheral; found holds the three lists
RECURSIVE parse_peripheral_sections(_, _, _, _)
parse_peripheral_sections(lines, index, order, found) ==
    IF index > Len(lines) THEN Return(found)
    ELSE IF StartsWith(lines[index], "Address Block:")
    THEN With(parse_address_block(lines, index),
              LAMBDA block :
                  IF block.exc # "None" THEN Raise(block.exc)
                  ELSE parse_peripheral_sections(lines, block.index, order,
                           [found EXCEPT !.address_blocks = Append(@, block.value)]))
    ELSE IF StartsWith(lines[index], "Interrupt:")
    THEN With(parse_interrupt(lines, index),
              LAMBDA intr :
                  IF intr.exc # "None" THEN Raise(intr.exc)
                  ELSE parse_peripheral_sections(lines, intr.index, order,
                           [found EXCEPT !.interrupts = Append(@, intr.value)]))
    ELSE IF StartsWith(lines[index], "===")
    THEN With(parse_register_or_cluster(lines, index, order),
              LAMBDA element :
                  IF element.exc # "None" THEN Raise(element.exc)
                  ELSE parse_peripheral_sections(lines, element.index, order,
                           IF element.value # NoObject
                           THEN [found EXCEPT !.registers_clusters = Append(@, element.value)]
                           ELSE found))
    ELSE parse_peripheral_sections(lines, index + 1, order, found)

\* key=lambda ab: ab.offset
AddressBlockKey(ab) == <<ab.offset>>
\* key=lambda intr: intr.value
InterruptKey(intr) == <<intr.value>>
\* key=lambda p: (p.base_address, p.name)
PeripheralKey(p) == <<p.base_address, NameRank(p.name)>>

parse_peripheral(lines, order) ==
    With(ReadPairs(lines, 2,
                   [k \in {"name"} |->
                       Word(HeaderName(lines[1], "Peripheral", "UnknownPeripheral"))],
                   "Peripheral"),
         LAMBDA read :
    With(parse_peripheral_sections(lines, read.index, order,
             [address_blocks |-> <<>>, interrupts |-> <<>>, registers_clusters |-> <<>>]),
         LAMBDA found :
             IF found.exc # "None" THEN Raise(found.exc)
             ELSE
    With([base_address |-> HexAttr(read.data, "baseAddress"),
          size |-> DecAttr(read.data, "size effective"),
          access |-> _get_access_type(Token(read.data, "access")),
          protection |-> _get_protection_type(Token(read.data, "protection")),
          reset_value |-> HexAttr(read.data, "resetValue"),
          reset_mask |-> HexAttr(read.data, "resetMask")],
         LAMBDA arg :
    With(FirstRaised(<<arg.base_address, arg.size, arg.access, arg.protection,
                       arg.reset_value, arg.reset_mask>>),
         LAMBDA raised :
             IF raised # "None" THEN Raise(raised)
             ELSE Return([Peripheral(Token(read.data, "name"), arg.base_address.value,
                              sorted(found.value.address_blocks,
                                     [i \in DOMAIN found.value.address_blocks |->
                                         AddressBlockKey(found.value.address_blocks[i])]),
                              sorted(found.value.interrupts,
                                     [i \in DOMAIN found.value.interrupts |->
                                         InterruptKey(found.value.interrupts[i])]),
                              sorted(found.value.registers_clusters,
                                     [i \in DOMAIN found.value.registers_clusters |->
                                         RegisterClusterKey(found.value.registers_clusters[i])]))
                            EXCEPT !.version = OrNone(read.data, "version"),
                                   !.alternate_peripheral = OrNone(read.data, "alternatePeripheral"),
                                   !.group_name = OrNone(read.data, "groupName"),
                                   !.prepend_to_name = OrNone(read.data, "prependToName"),
                                   !.append_to_name = OrNone(read.data, "appendToName"),
                                   !.header_struct_name = OrNone(read.data, "headerStructName"),
                                   !.disable_condition =
                                       IF OrNone(read.data, "disableCondition") = "NULL"
                                       THEN "None"
                                       ELSE OrNone(read.data, "disableCondition"),
                                   !.size = arg.size.value,
                                   !.access = arg.access.value,
                                   !.protection = arg.protection.value,
                                   !.reset_value = arg.reset_value.value,
                                   !.reset_mask = arg.reset_mask.value])))))

\* the first loop of parse: the non-blank lines between one separator line
\* and the next are a block, and an empty block is dropped
peripheral_blocks(lines) ==
    LET cuts == Ascending({0, Len(lines) + 1}
                          \cup {i \in DOMAIN lines : lines[i].tag = "separator"})
    IN With(cuts, LAMBDA c :
           SelectSeq([k \in 1 .. (Len(c) - 1) |->
                         SelectSeq(SubSeq(lines, c[k] + 1, c[k + 1] - 1),
                                   LAMBDA line : line.tag # "blank")],
                     LAMBDA block : block # <<>>))

\* [self.parse_peripheral(block) for block in peripheral_blocks]
RECURSIVE parse_blocks(_, _, _, _)
parse_blocks(blocks, next, order, peripherals) ==
    IF next > Len(blocks) THEN Return(peripherals)
    ELSE With(parse_peripheral(blocks[next], order),
              LAMBDA peripheral :
                  IF peripheral.exc # "None" THEN Raise(peripheral.exc)
                  ELSE parse_blocks(blocks, next + 1, order,
                                    Append(peripherals, peripheral.value)))

parse(lines, order) ==
    With(peripheral_blocks(lines),
         LAMBDA blocks :
    With(parse_blocks(blocks, 1, order, <<>>),
         LAMBDA peripherals :
             IF peripherals.exc # "None" THEN Raise(peripherals.exc)
             ELSE Return(sorted(peripherals.value,
                                [i \in DOMAIN peripherals.value |->
                                    PeripheralKey(peripherals.value[i])]))))

(***************************************************************************)
(* The outputs of the reference tool the parser is run on: a debug output  *)
(* in the layout the parser expects, one indentation unit per nesting      *)
(* level, and the outputs that differ from it in one line.                 *)
(***************************************************************************)
RECURSIVE Digits(_, _)
Digits(n, base) ==
    IF n < base THEN <<n>> ELSE Append(Digits(n \div base, base), n % base)

RECURSIVE Flatten(_)
Flatten(blocks) == IF blocks = <<>> THEN <<>> ELSE Head(blocks) \o Flatten(Tail(blocks))

EnumLines(indent, name, value, is_default) ==
    <<Pair(indent, "Enum", Word("")),
      Pair(indent + 4, "name", Word(name)),
      Pair(indent + 4, "value", value),
      Pair(indent + 4, "isDefault", Word(IF is_default THEN "true" ELSE "false"))>>

EnumContainerLines(indent, name, usage, enums) ==
    <<Header(indent, "Enum Container:", name),
      Pair(indent + 4, "usage", Word(usage))>> \o Flatten(enums)

FieldLines(indent, name, bit_offset, bit_width, containers) ==
    <<Header(indent, "Field", name),
      Pair(indent + 4, "bitOffset", Numeral("", Digits(bit_offset, 10))),
      Pair(indent + 4, "bitWidth", Numeral("", Digits(bit_width, 10))),
      Pair(indent + 4, "access", Word("READ_WRITE")),
      Pair(indent + 4, "modifiedWriteValues", Word("undefined")),
      Pair(indent + 4, "readAction", Word("UNDEF"))>> \o Flatten(containers)

RegisterLines(indent, name, address_offset, absolute_address, fields) ==
    <<Header(indent, "Register", name),
      Pair(indent + 4, "addressOffset", Numeral("0x", Digits(address_offset, 16))),
      Pair(indent + 4, "dataType", Word("")),
      Pair(indent + 4, "modifiedWriteValues", Word("undefined")),
      Pair(indent + 4, "readAction", Word("UNDEF")),
      Pair(indent + 4, "size effective", Numeral("", Digits(32, 10))),
      Pair(indent + 4, "access", Word("READ_WRITE")),
      Pair(indent + 4, "protection", Word("UNDEF")),
      Pair(indent + 4, "Absolute Address", Numeral("0x", Digits(absolute_address, 16)))>> \o Flatten(fields)

ClusterLines(indent, name, address_offset, absolute_address, children) ==
    <<Header(indent, "Cluster", name),
      Pair(indent + 4, "addressOffset", Numeral("0x", Digits(address_offset, 16))),
      Pair(indent + 4, "size effective", Numeral("", Digits(32, 10))),
      Pair(indent + 4, "access", Word("READ_WRITE")),
      Pair(indent + 4, "protection", Word("UNDEF")),
      Pair(indent + 4, "Absolute Address", Numeral("0x", Digits(absolute_address, 16)))>> \o Flatten(children)

AddressBlockLines(indent, offset, size, usage) ==
    <<Pair(indent, "Address Block", Word("")),
      Pair(indent + 4, "Offset", Numeral("0x", Digits(offset, 16))),
      Pair(indent + 4, "Size", Numeral("", Digits(size, 10))),
      Pair(indent + 4, "Usage", Word(usage)),
      Pair(indent + 4, "Protection", Word("UNDEF"))>>

InterruptLines(indent, name, value) ==
    <<Pair(indent, "Interrupt", Word("")),
      Pair(indent + 4, "Name", Word(name)),
      Pair(indent + 4, "Value", Numeral("", Digits(value, 10)))>>

PeripheralLines(name, base_address, sections) ==
    <<Separator,
      Header(0, "Peripheral", name),
      Pair(4, "baseAddress", Numeral("0x", Digits(base_address, 16))),
      Pair(4, "size effective", Numeral("", Digits(32, 10))),
      Pair(4, "access", Word("READ_WRITE")),
      Pair(4, "protection", Word("UNDEF"))>> \o Flatten(sections)

\* nested clusters, the innermost first in the text and at the higher offset
RECURSIVE ChannelLines(_, _, _)
ChannelLines(depth, indent, parent_base) ==
    ClusterLines(indent, "CH", 16, parent_base + 16,
        <<RegisterLines(indent + 4, "STAT", 4, parent_base + 20, <<>>)>>
        \o (IF depth > 1 THEN <<ChannelLines(depth - 1, indent + 4, parent_base + 16)>>
            ELSE <<>>)
        \o <<RegisterLines(indent + 4, "DATA", 0, parent_base + 16, <<>>)>>)

\* a peripheral whose lists are all out of order in the text, with a field of
\* width 2 whose enum container has two explicit values and a default
TimerLines ==
    PeripheralLines("TIMER0", 4096,
        <<AddressBlockLines(4, 1024, 16, "RESERVED"),
          AddressBlockLines(4, 0, 1024, "REGISTERS"),
          InterruptLines(4, "TIMER0_OVF", 4),
          InterruptLines(4, "TIMER0_IRQ", 3),
          ChannelLines(NestDepth, 4, 4096),
          RegisterLines(4, "CTRL", 0, 4096,
              <<FieldLines(8, "DIV", 1, 2,
                    <<EnumContainerLines(12, "MODE", "UNDEF",
                          <<EnumLines(16, "B", Numeral("0b", Digits(1, 2)), FALSE),
                            EnumLines(16, "X", Numeral("0b", Digits(0, 2)), TRUE),
                            EnumLines(16, "A", Numeral("0b", Digits(0, 2)), FALSE)>>)>>),
                FieldLines(8, "EN", 0, 1, <<>>)>>)>>)

UartLines ==
    PeripheralLines("UART0", 256,
        <<AddressBlockLines(4, 0, 512, "REGISTERS"),
          RegisterLines(4, "STAT", 0, 256, <<>>)>>)

\* a peripheral whose cluster ends with a nested cluster, the text going on
\* with a register of the peripheral
DmaLines ==
    PeripheralLines("DMA", 8192,
        <<ClusterLines(4, "CH", 0, 8192,
              <<RegisterLines(8, "DATA", 0, 8192, <<>>),
                ClusterLines(8, "CH", 16, 8208,
                    <<RegisterLines(12, "STAT", 0, 8208, <<>>)>>)>>),
          RegisterLines(4, "CTRL", 64, 8256, <<>>)>>)

\* the summary line "Found <N> Error(s) and <M> Warning(s)" of a run of the
\* tool, or a run that prints none
Summary(errors, warnings) == [found |-> TRUE, errors |-> errors, warnings |-> warnings]
NoSummary == [found |-> FALSE]

\* another value in the place of a word or a numeral: another word, the next
\* number in the same notation, a word where a number is expected
OtherValues(value) ==
    IF value.kind = "word"
    THEN IF value.word \in {"true", "false"}
         THEN {Word(IF value.word = "true" THEN "false" ELSE "true")}
         ELSE {Word("BOGUS")}
    ELSE LET base == CASE value.prefix = "0x" -> 16
                       [] value.prefix = "0b" -> 2
                       [] OTHER -> 10
         IN {Numeral(value.prefix, Digits(DigitsValue(value.digits, base, 0) + 1, base)),
             Word("BOGUS")}
            \cup IF value.prefix = "0b"
                 THEN {Numeral("0x", value.digits), Numeral("", value.digits),
                       Numeral("0b", <<2>>)}
                 ELSE {}

\* the ways one line of the output may differ
LineEdits(lines) ==
    {[op |-> "drop", at |-> i] : i \in DOMAIN lines}
    \cup UNION {{[op |-> "value", at |-> i, value |-> v] : v \in OtherValues(lines[i].value)}
                : i \in {j \in DOMAIN lines :
                            /\ lines[j].tag = "pair"
                            /\ lines[j].key \notin {"Address Block", "Interrupt", "Enum"}}}
    \cup {[op |-> "text", at |-> i] : i \in {j \in DOMAIN lines : lines[j].tag = "pair"}}
    \cup UNION {{[op |-> "indent", at |-> i, by |-> n]
                 : n \in {m \in {1, WHITESPACES, 0 - WHITESPACES} : lines[i].indent + m >= 0}}
                : i \in {j \in DOMAIN lines : lines[j].tag = "header"}}

LineEdit(lines, e) ==
    CASE e.op = "drop" -> SubSeq(lines, 1, e.at - 1) \o SubSeq(lines, e.at + 1, Len(lines))
      [] e.op = "value" -> [lines EXCEPT ![e.at].value = e.value]
      [] e.op = "text" -> [lines EXCEPT ![e.at] = Text(@.indent)]
      [] e.op = "indent" -> [lines EXCEPT ![e.at].indent = @ + e.by]

\* the runs of the tool the parser is given: the debug output as it stands
\* under every summary line, no peripheral at all, a cluster that ends with a
\* nested cluster, and the outputs that
\* differ from the debug output in one line, under a summary without errors
\* and under one with an error
Outputs ==
    LET printed == TimerLines \o UartLines
    IN {[lines |-> printed, summary |-> s]
        : s \in {Summary(0, 0), Summary(0, 3), Summary(1, 0), Summary(2, 1), NoSummary}}
       \cup {[lines |-> l, summary |-> s]
             : l \in {<<>>, <<Separator, Blank(0)>>}, s \in {Summary(0, 0), Summary(1, 0)}}
       \cup {[lines |-> DmaLines, summary |-> Summary(0, 0)]}
       \cup {[lines |-> LineEdit(printed, e), summary |-> s]
             : e \in LineEdits(printed), s \in {Summary(0, 1), Summary(1, 0)}}

(***************************************************************************)
(* parse_svdconv_output: the parser boundary.  Its outcome is a list of    *)
(* peripherals, None, or an exception that leaves the function.            *)
(***************************************************************************)
Pending == [status |-> "pending"]
ReturnedList(peripherals) == [status |-> "list", value |-> peripherals]
ReturnedNone == [status |-> "None"]
Raised(exc) == [status |-> "raised", exc |-> exc]

\* what a call that evaluates to r leaves its caller with
Outcome(r) == IF r.exc # "None" THEN Raised(r.exc) ELSE ReturnedList(r.value)

\* the two command lines run_svdconv is given
StatsRun == <<>>
DebugRun == <<"--debug-output", "--quiet">>

get_error_warning_stats(summary) ==
    IF summary.found THEN Return(<<summary.errors, summary.warnings>>)
    ELSE Raise("ValueError")

\* faulty variant: the count of warnings is looked at in place of the errors
parse_svdconv_output_on_warnings(summary, lines, order) ==
    LET stats == get_error_warning_stats(summary)
    IN IF stats.exc # "None" THEN [outcome |-> Raised(stats.exc), runs |-> <<StatsRun>>]
       ELSE IF stats.value[2] > 0 THEN [outcome |-> ReturnedNone, runs |-> <<StatsRun>>]
       ELSE [outcome |-> Outcome(parse(lines, order)), runs |-> <<StatsRun, DebugRun>>]

\* parse_svdconv_output(svd_path) on a file for which the tool prints
\* summary and lines: the outcome and the runs of the tool made for it
parse_svdconv_output(summary, lines, order) ==
    LET stats == get_error_warning_stats(summary)
    IN IF stats.exc # "None" THEN [outcome |-> Raised(stats.exc), runs |-> <<StatsRun>>]
       ELSE IF stats.value[1] > 0 THEN [outcome |-> ReturnedNone, runs |-> <<StatsRun>>]
       ELSE [outcome |-> Outcome(parse(lines, order)), runs |-> <<StatsRun, DebugRun>>]

(***************************************************************************)
(* main: the batch loop over the SVD files.  A file is its SVDMeta, what   *)
(* the reference tool prints for it and the peripherals svdsuite builds    *)
(* from it.                                                                *)
(***************************************************************************)
SVDMeta(vendor, name, version, svd) ==
    [vendor |-> vendor, name |-> name, version |-> version, svd |-> svd]

LAST_SUCCESSFUL ==
    [vendor |-> "GigaDevice", name |-> "GD32L23x_DFP", version |-> "1.0.3",
     svd_name |-> "GD32L23x"]

ACCEPTED_DIFFERENCES ==
    <<[vendor |-> "ELAN", name |-> "eKTF7020_DFP", version |-> "1.0.1", svd_name |-> "eKTF7020"],
      [vendor |-> "ELAN", name |-> "eWD720_DFP", version |-> "1.0.1", svd_name |-> "eWD720"],
      [vendor |-> "Geehy", name |-> "APM32E1xx_DFP", version |-> "1.0.0",
       svd_name |-> "APM32E103xx"]>>

\* faulty variant: the version of the package is not looked at
is_accepted_difference_any_version(svd_meta) ==
    \E i \in DOMAIN ACCEPTED_DIFFERENCES :
        /\ ACCEPTED_DIFFERENCES[i].vendor = svd_meta.vendor
        /\ ACCEPTED_DIFFERENCES[i].name = svd_meta.name
        /\ ACCEPTED_DIFFERENCES[i].svd_name = svd_meta.svd

is_accepted_difference(svd_meta) ==
    \E i \in DOMAIN ACCEPTED_DIFFERENCES :
        /\ ACCEPTED_DIFFERENCES[i].vendor = svd_meta.vendor
        /\ ACCEPTED_DIFFERENCES[i].name = svd_meta.name
        /\ ACCEPTED_DIFFERENCES[i].version = svd_meta.version
        /\ ACCEPTED_DIFFERENCES[i].svd_name = svd_meta.svd

skip_to_untested(files) ==
    LET hits == {i \in DOMAIN files :
                     /\ LAST_SUCCESSFUL.vendor = files[i].meta.vendor
                     /\ LAST_SUCCESSFUL.name = files[i].meta.name
                     /\ LAST_SUCCESSFUL.version = files[i].meta.version
                     /\ LAST_SUCCESSFUL.svd_name = files[i].meta.svd}
    IN IF hits = {} THEN files
       ELSE SubSeq(files, (CHOOSE i \in hits : \A j \in hits : i <= j) + 1, Len(files))

\* the files of a run: the tool prints errors for some, an unknown token or
\* no summary for others; svdsuite agrees with the tool or names a
\* peripheral differently
File(meta, summary, lines, svdsuite) ==
    [meta |-> meta, summary |-> summary, lines |-> lines, svdsuite |-> svdsuite]

UartForest == parse(UartLines, "ascending").value
UartRenamed == <<[UartForest[1] EXCEPT !.name = "UART1"]>>
UartUnknownToken == [UartLines EXCEPT ![5].value = Word("BOGUS")]

Files ==
    LET last == SVDMeta("GigaDevice", "GD32L23x_DFP", "1.0.3", "GD32L23x")
        accepted == SVDMeta("ELAN", "eWD720_DFP", "1.0.1", "eWD720")
        newer == SVDMeta("ELAN", "eWD720_DFP", "1.0.2", "eWD720")
        plain == SVDMeta("ARM", "CMSIS", "5.9.0", "ARMCM4")
    IN {File(last, Summary(0, 0), UartLines, UartForest),
        File(accepted, Summary(0, 2), UartLines, UartRenamed),
        File(accepted, Summary(0, 0), UartLines, UartForest),
        File(newer, Summary(0, 0), UartLines, UartRenamed),
        File(plain, Summary(0, 0), UartLines, UartRenamed),
        File(plain, Summary(0, 1), UartLines, UartForest),
        File(plain, Summary(3, 0), UartLines, UartForest),
        File(plain, Summary(0, 0), UartUnknownToken, UartForest),
        File(plain, NoSummary, UartLines, UartForest)}

\* the lines that hold a token of one of the closed vocabularies
TokenKeys ==
    {"access", "protection", "Usage", "Protection", "modifiedWriteValues", "readAction",
     "usage", "dataType"}

\* a token that is in no vocabulary in the place of one that is, or the line
\* of a token missing; a missing dataType reads as no data type
TokenEdits(lines) ==
    {e \in LineEdits(lines) :
        /\ e.op \in {"value", "drop"}
        /\ lines[e.at].tag = "pair"
        /\ lines[e.at].key \in TokenKeys
        /\ e.op = "drop" => lines[e.at].key # "dataType"}

\* a run on two files, for the first of which the tool prints a token that
\* is in no vocabulary or leaves one out
TokenRuns ==
    LET plain == SVDMeta("ARM", "CMSIS", "5.9.0", "ARMCM4")
        printed == TimerLines \o UartLines
    IN {<<File(plain, Summary(0, 1), LineEdit(printed, e), UartForest),
          File(plain, Summary(0, 0), UartLines, UartForest)>>
        : e \in TokenEdits(printed)}

\* number of files given to one run
MaxFiles == 3

RECURSIVE FileLists(_)
FileLists(n) ==
    IF n = 0 THEN {<<>>}
    ELSE LET shorter == FileLists(n - 1)
         IN shorter \cup {Append(l, f) : l \in {s \in shorter : Len(s) = n - 1}, f \in Files}

(***************************************************************************)
(* The state machines.  Spec is a Compare object constructed on two        *)
(* forests and the calls of its compare() method; ParserSpec is            *)
(* parse_svdconv_output on one output of the reference tool, a second      *)
(* parse of the same lines and the comparison of the two results;          *)
(* MainSpec is the batch loop of main.  The part of the state a machine    *)
(* does not use stays as it is in the initial state.                       *)
(***************************************************************************)
compare_vars == <<_svdconv_peripherals, _svdsuite_peripherals, verdict, log, trace, calls>>
parser_vars == <<debug_output, summary_line, runs, result, again>>
main_vars == <<svd_meta_list, journal, exit>>

NoCompare ==
    /\ _svdconv_peripherals = <<>>
    /\ _svdsuite_peripherals = <<>>
    /\ verdict = "pending"
    /\ log = <<>>
    /\ trace = <<>>
    /\ calls = 0

NoParser ==
    /\ debug_output = <<>>
    /\ summary_line = NoSummary
    /\ runs = <<>>
    /\ result = Pending
    /\ again = Pending

NoMain ==
    /\ svd_meta_list = <<>>
    /\ journal = <<>>
    /\ exit = "none"

Init ==
    /\ \E in \in Inputs : \E es \in EditSeqs(in.peripherals, in.differences) :
          \/ /\ _svdconv_peripherals = in.peripherals
             /\ _svdsuite_peripherals = EditAll(in.peripherals, es)
          \/ /\ _svdconv_peripherals = EditAll(in.peripherals, es)
             /\ _svdsuite_peripherals = in.peripherals
    /\ verdict = "pending"
    /\ log = <<>>
    /\ trace = <<>>
    /\ calls = 0
    /\ NoParser
    /\ NoMain

\* faulty variant: the comparison consumes the lists it walks
compare_consuming ==
    /\ calls < MaxCalls
    /\ LET r == _compare_peripherals(_svdconv_peripherals, _svdsuite_peripherals)
       IN /\ verdict' = (IF r.ok THEN "True" ELSE "False")
          /\ log' = r.log
          /\ trace' = r.trace
    /\ calls' = calls + 1
    /\ _svdconv_peripherals' = SubSeq(_svdconv_peripherals, 2, Len(_svdconv_peripherals))
    /\ _svdsuite_peripherals' = SubSeq(_svdsuite_peripherals, 2, Len(_svdsuite_peripherals))
    /\ UNCHANGED <<parser_vars, main_vars>>

compare ==
    /\ calls < MaxCalls
    /\ LET r == _compare_peripherals(_svdconv_peripherals, _svdsuite_peripherals)
       IN /\ verdict' = (IF r.ok THEN "True" ELSE "False")
          /\ log' = r.log
          /\ trace' = r.trace
    /\ calls' = calls + 1
    /\ UNCHANGED <<_svdconv_peripherals, _svdsuite_peripherals>>
    /\ UNCHANGED <<parser_vars, main_vars>>

Next == compare

Spec == Init /\ [][Next]_vars

ParserInit ==
    /\ \E output \in Outputs :
          /\ debug_output = output.lines
          /\ summary_line = output.summary
    /\ runs = <<>>
    /\ result = Pending
    /\ again = Pending
    /\ NoCompare
    /\ NoMain

\* parse_svdconv_output(svd_path)
ParseSvdconvOutput ==
    /\ result = Pending
    /\ \E order \in SetOrders :
          \E r \in {parse_svdconv_output(summary_line, debug_output, order)} :
             /\ result' = r.outcome
             /\ runs' = r.runs
    /\ UNCHANGED <<debug_output, summary_line, again, compare_vars, main_vars>>

\* SVDConvParser(lines).parse() once more on the lines it was given
ParseAgain ==
    /\ result.status = "list"
    /\ again = Pending
    /\ \E order \in SetOrders : again' = Outcome(parse(debug_output, order))
    /\ UNCHANGED <<debug_output, summary_line, runs, result, compare_vars, main_vars>>

\* Compare(first, second).compare() on the results of the two parses
CompareParsed ==
    /\ result.status = "list"
    /\ again.status = "list"
    /\ calls = 0
    /\ _svdconv_peripherals' = result.value
    /\ _svdsuite_peripherals' = again.value
    /\ LET r == _compare_peripherals(result.value, again.value)
       IN /\ verdict' = (IF r.ok THEN "True" ELSE "False")
          /\ log' = r.log
          /\ trace' = r.trace
    /\ calls' = calls + 1
    /\ UNCHANGED <<parser_vars, main_vars>>

ParserNext == ParseSvdconvOutput \/ ParseAgain \/ CompareParsed

ParserSpec == ParserInit /\ [][ParserNext]_vars

MainInit ==
    /\ \E files \in FileLists(MaxFiles) \cup TokenRuns :
          svd_meta_list = skip_to_untested(files)
    /\ journal = <<>>
    /\ exit = "running"
    /\ NoCompare
    /\ NoParser

\* what one iteration of the loop leaves in the journal
Entry(svd_meta, parsed, compared, difference) ==
    [meta |-> svd_meta, parsed |-> parsed, compared |-> compared, difference |-> difference]

\* one iteration of "for svd_meta in svd_meta_list": an exception of the
\* parser leaves main, None skips the file, a difference that is not accepted
\* raises SystemExit(1)
MainLoop ==
    /\ exit = "running"
    /\ Len(journal) < Len(svd_meta_list)
    /\ \E order \in SetOrders :
          \E file \in {svd_meta_list[Len(journal) + 1]} :
          \E svdconv_peripherals \in
                 {parse_svdconv_output(file.summary, file.lines, order).outcome} :
          LET r == _compare_peripherals(svdconv_peripherals.value, file.svdsuite)
          IN CASE svdconv_peripherals.status = "raised" ->
                    /\ journal' = Append(journal, Entry(file.meta, "raised", FALSE, FALSE))
                    /\ exit' = svdconv_peripherals.exc
                    /\ UNCHANGED compare_vars
               [] svdconv_peripherals.status = "None" ->
                    /\ journal' = Append(journal, Entry(file.meta, "None", FALSE, FALSE))
                    /\ exit' = exit
                    /\ UNCHANGED compare_vars
               [] svdconv_peripherals.status = "list" ->
                    /\ _svdconv_peripherals' = svdconv_peripherals.value
                    /\ _svdsuite_peripherals' = file.svdsuite
                    /\ verdict' = (IF r.ok THEN "True" ELSE "False")
                    /\ log' = r.log
                    /\ trace' = r.trace
                    /\ calls' = 1
                    /\ journal' = Append(journal, Entry(file.meta, "list", TRUE, ~r.ok))
                    /\ exit' = IF ~r.ok /\ ~is_accepted_difference(file.meta)
                               THEN "SystemExit(1)" ELSE exit
    /\ UNCHANGED <<svd_meta_list, parser_vars>>

\* the loop is exhausted and main returns
MainReturn ==
    /\ exit = "running"
    /\ Len(journal) = Len(svd_meta_list)
    /\ exit' = "0"
    /\ UNCHANGED <<svd_meta_list, journal, compare_vars, parser_vars>>

MainNext == MainLoop \/ MainReturn

MainSpec == MainInit /\ [][MainNext]_vars

(***************************************************************************)
(* Vocabulary of the properties.                                           *)
(***************************************************************************)
Returned == calls > 0

conv == Root(_svdconv_peripherals)
suite == Root(_svdsuite_peripherals)

\* the object with the named attributes removed from it and from every descendant
RECURSIVE Without(_, _)
Without(node, attrs) ==
    [a \in DOMAIN node \ attrs |->
        IF a \in SeqRange(ListAttrs(node.kind))
        THEN [i \in DOMAIN node[a] |-> Without(node[a][i], attrs)]
        ELSE node[a]]

ResetAttrs == {"reset_value", "reset_mask"}

SameExceptReset == Without(conv, ResetAttrs) = Without(suite, ResetAttrs)

\* the paths of the object pairs that positional pairing yields: the i-th
\* children of two paired objects of the same class, for i up to the shorter list
RECURSIVE PairedBelow(_, _, _)
PairedBelow(c, s, path) ==
    IF c.kind # s.kind THEN {}
    ELSE UNION {UNION {{Append(path, <<l, i>>)}
                       \cup PairedBelow(c[l][i], s[l][i], Append(path, <<l, i>>))
                       : i \in 1..Min(Len(c[l]), Len(s[l]))}
                : l \in SeqRange(ListAttrs(c.kind))}

Paired == PairedBelow(conv, suite, <<>>)

PairedSameKind == {p \in Paired : GetAt(conv, p).kind = GetAt(suite, p).kind}

\* the last comparison the call evaluated
Reported == trace[Len(trace)]

\* the comparison is of an element of list l of the object at path p, or below it
InList(step, p, l) ==
    /\ Len(step.path) > Len(p)
    /\ IsPrefix(p, step.path)
    /\ step.path[Len(p) + 1][1] = l

(***************************************************************************)
(* C1  Exclusion correctness: two forests that are identical in every      *)
(* attribute except reset_value and reset_mask of peripherals, registers   *)
(* and clusters, at any nesting depth, compare as equal.                   *)
(***************************************************************************)
C1_ExclusionCorrectness ==
    (Returned /\ SameExceptReset) => verdict = "True"

\* reached: a register or cluster nested in a cluster differs in its reset value
C1_Witness ==
    /\ Returned
    /\ SameExceptReset
    /\ verdict = "True"
    /\ \E p \in PairedSameKind :
          /\ Len(p) >= 3
          /\ GetAt(conv, p).kind \in {"Register", "Cluster"}
          /\ GetAt(conv, p).reset_value # GetAt(suite, p).reset_value

(***************************************************************************)
(* C2  A length mismatch of the two peripheral sequences given to Compare  *)
(* makes compare() return False, also when the shorter sequence is a       *)
(* pairwise-equal prefix of the longer one or is empty.                    *)
(***************************************************************************)
C2_TopLevelLengthMismatch ==
    (Returned /\ Len(_svdconv_peripherals) # Len(_svdsuite_peripherals))
        => verdict = "False"

(***************************************************************************)
(* C3  A length mismatch of two paired child lists below the top level     *)
(* makes compare() return False, and no element of the two mismatched      *)
(* lists is compared.                                                      *)
(***************************************************************************)
NestedLengthMismatches ==
    {m \in UNION {{<<p, l>> : l \in SeqRange(ListAttrs(GetAt(conv, p).kind))}
                  : p \in PairedSameKind} :
        Len(GetAt(conv, m[1])[m[2]]) # Len(GetAt(suite, m[1])[m[2]])}

\* C3: every nested length mismatch gives False and none of the two lists'
\* elements is compared
C3_NestedLengthMismatch ==
    Returned =>
        \A m \in NestedLengthMismatches :
            /\ verdict = "False"
            /\ \A k \in DOMAIN trace : ~InList(trace[k], m[1], m[2])

\* reached: two non-empty lists of different length below a cluster, reported
C3_Witness ==
    /\ Returned
    /\ \E m \in NestedLengthMismatches :
          /\ Len(m[1]) >= 2
          /\ Min(Len(GetAt(conv, m[1])[m[2]]), Len(GetAt(suite, m[1])[m[2]])) >= 1
          /\ Reported = Step(m[1], m[2], "len")
          /\ Len(log) = 1

(***************************************************************************)
(* C4  Exact per-attribute equality: for two forests with the same number  *)
(* of peripherals compare() returns True if and only if, pairing           *)
(* positionally at every level, all child-list lengths match, every paired *)
(* child has the same class and every attribute other than reset_value and *)
(* reset_mask is equal.                                                    *)
(***************************************************************************)
C4_EqualityOnAllButReset ==
    (Returned /\ Len(_svdconv_peripherals) = Len(_svdsuite_peripherals))
        => (verdict = "True" <=> SameExceptReset)

\* the attributes of the data model that no _compare_* method reads, besides
\* reset_value and reset_mask
NeverCompared ==
    {"description", "disable_condition", "write_constraint", "parsed",
     "end_address", "end_address_effective", "peripheral_size",
     "peripheral_size_effective", "cluster_size", "registers"}

SameOnCompared ==
    Without(conv, ResetAttrs \cup NeverCompared)
        = Without(suite, ResetAttrs \cup NeverCompared)

\* C4 as amended: ... and every attribute the comparator reads (all but
\* reset_value, reset_mask, description, disable_condition, write_constraint,
\* parsed and the derived end address and size attributes) is equal.
C4_EqualityOnComparedAttributes ==
    (Returned /\ Len(_svdconv_peripherals) = Len(_svdsuite_peripherals))
        => (verdict = "True" <=> SameOnCompared)

\* reached: equal verdict on forests that differ in an attribute that is never
\* compared and is not a reset attribute
C4_Witness ==
    /\ Returned
    /\ Len(_svdconv_peripherals) = Len(_svdsuite_peripherals)
    /\ verdict = "True"
    /\ SameOnCompared
    /\ ~SameExceptReset

(***************************************************************************)
(* C5  A Register-vs-Cluster class mismatch at the same position of two    *)
(* child lists makes compare() return False; the pair is reported by the   *)
(* type-mismatch warning and no attribute of the pair is compared.         *)
(***************************************************************************)
KindMismatches == Paired \ PairedSameKind

\* C5: a class mismatch gives False, and if the pair is visited at all the
\* visit is the type check, it is the last comparison and its warning is the
\* type-mismatch warning
C5_TypeMismatch ==
    Returned =>
        \A p \in KindMismatches :
            /\ verdict = "False"
            /\ \A k \in DOMAIN trace :
                  IsPrefix(p, trace[k].path) =>
                      /\ trace[k] = Step(p, "kind", "isinstance")
                      /\ k = Len(trace)
                      /\ log = <<Warning("Register/Cluster type mismatch",
                                         GetAt(conv, p).kind, GetAt(suite, p).kind)>>

\* reached: a mismatched pair inside a cluster is the reported divergence
C5_Witness ==
    /\ Returned
    /\ \E p \in KindMismatches :
          /\ Len(p) >= 3
          /\ Reported.path = p
          /\ Len(log) = 1

(***************************************************************************)
(* C6  Divergence determinism: given two forests that differ at exactly    *)
(* one leaf Field attribute, the comparator returns False and its report   *)
(* identifies that exact path (peripheral, cluster/register chain, field)  *)
(* and attribute.                                                          *)
(***************************************************************************)
RECURSIVE PutAt(_, _, _, _)
PutAt(node, path, attr, v) ==
    IF path = <<>> THEN [node EXCEPT ![attr] = v]
    ELSE [node EXCEPT ![Head(path)[1]] =
             [@ EXCEPT ![Head(path)[2]] = PutAt(@, Tail(path), attr, v)]]

FieldPaths == {p \in PairedSameKind : GetAt(conv, p).kind = "Field"}

\* the two forests differ in attribute a of the field at p and nowhere else
OnlyFieldDifference(p, a) ==
    /\ GetAt(conv, p)[a] # GetAt(suite, p)[a]
    /\ suite = PutAt(conv, p, a, GetAt(suite, p)[a])

\* the warnings emitted tell this difference from the same difference at any
\* other field
ReportIdentifiesPath(p, a) ==
    /\ Len(log) = 1
    /\ \A q \in FieldPaths \ {p} :
          _compare_peripherals(_svdconv_peripherals,
              PutAt(conv, q, a, GetAt(suite, p)[a]).peripherals).log # log

FieldCompared ==
    {"name", "lsb", "msb", "bit_offset", "bit_width", "bit_range",
     "modified_write_values", "read_action", "access"}

FieldMismatchMessage(a) ==
    CASE a = "name" -> "Field name mismatch"
      [] a = "lsb" -> "Field lsb mismatch"
      [] a = "msb" -> "Field msb mismatch"
      [] a = "bit_offset" -> "Field bit offset mismatch"
      [] a = "bit_width" -> "Field bit width mismatch"
      [] a = "bit_range" -> "Field bit range mismatch"
      [] a = "modified_write_values" -> "Field modified write values mismatch"
      [] a = "read_action" -> "Field read action mismatch"
      [] a = "access" -> "Field access mismatch"

C6_PathCase ==
    Returned =>
        \A p \in FieldPaths : \A a \in FieldCompared :
            OnlyFieldDifference(p, a) => ReportIdentifiesPath(p, a)

(***************************************************************************)
(* C7  When two paired peripherals differ both in a peripheral-level       *)
(* scalar attribute (including size, access or protection) and in an       *)
(* attribute of one of their address blocks or interrupts, the divergence  *)
(* reported is the peripheral-level scalar attribute.                      *)
(***************************************************************************)
PeripheralScalarsBeforeLists ==
    {"name", "version", "alternate_peripheral", "group_name", "prepend_to_name",
     "append_to_name", "header_struct_name", "base_address"}

PeripheralScalarsAfterLists == {"size", "access", "protection"}

DiffersIn(c, s, attrs) == \E a \in attrs : c[a] # s[a]

DiffersInBlocksOrInterrupts(peri_c, peri_s) ==
    \/ \E j \in 1..Min(Len(peri_c.address_blocks), Len(peri_s.address_blocks)) :
          DiffersIn(peri_c.address_blocks[j], peri_s.address_blocks[j],
                    {"offset", "size", "usage", "protection"})
    \/ \E j \in 1..Min(Len(peri_c.interrupts), Len(peri_s.interrupts)) :
          DiffersIn(peri_c.interrupts[j], peri_s.interrupts[j], {"name", "value"})

PeripheralPairs == {p \in Paired : Len(p) = 1}

\* the call returned False on a comparison of the pair at p or below it
StoppedWithin(p) == verdict = "False" /\ IsPrefix(p, Reported.path)

\* C7 as stated: the comparison the call stops at is a peripheral-level
\* attribute comparison of the pair
C7_PeripheralScalarsFirst ==
    Returned =>
        \A p \in PeripheralPairs :
            (/\ DiffersIn(GetAt(conv, p), GetAt(suite, p),
                          PeripheralScalarsBeforeLists \cup PeripheralScalarsAfterLists)
             /\ DiffersInBlocksOrInterrupts(GetAt(conv, p), GetAt(suite, p))
             /\ StoppedWithin(p))
            => /\ Reported.path = p
               /\ Reported.op = "ne"

\* C7 as amended: the reported divergence is the peripheral-level attribute if
\* that attribute is one of name, version, alternate_peripheral, group_name,
\* prepend_to_name, append_to_name, header_struct_name, base_address; if the
\* peripherals differ in size, access or protection only, the reported
\* divergence is that of the address block or interrupt, which are compared
\* before size, access and protection.
C7_PeripheralOrder ==
    Returned =>
        \A p \in PeripheralPairs :
            (/\ DiffersInBlocksOrInterrupts(GetAt(conv, p), GetAt(suite, p))
             /\ StoppedWithin(p))
            => /\ DiffersIn(GetAt(conv, p), GetAt(suite, p), PeripheralScalarsBeforeLists)
                  => /\ Reported.path = p
                     /\ Reported.op = "ne"
                     /\ Reported.attr \in PeripheralScalarsBeforeLists
               /\ (/\ ~DiffersIn(GetAt(conv, p), GetAt(suite, p), PeripheralScalarsBeforeLists)
                   /\ DiffersIn(GetAt(conv, p), GetAt(suite, p), PeripheralScalarsAfterLists))
                  => \/ InList(Reported, p, "address_blocks")
                     \/ InList(Reported, p, "interrupts")
                     \/ /\ Reported.path = p
                        /\ Reported.op = "len"
                        /\ Reported.attr \in {"address_blocks", "interrupts"}

\* reached: base_address and an interrupt differ, base_address is reported
C7_Witness ==
    /\ Returned
    /\ \E p \in PeripheralPairs :
          /\ GetAt(conv, p).base_address # GetAt(suite, p).base_address
          /\ DiffersInBlocksOrInterrupts(GetAt(conv, p), GetAt(suite, p))
          /\ StoppedWithin(p)
          /\ Reported = Step(p, "base_address", "ne")

\* reached as well: size and an address block differ, the address block is reported
C7_WitnessAfterLists ==
    /\ Returned
    /\ \E p \in PeripheralPairs :
          /\ GetAt(conv, p).size # GetAt(suite, p).size
          /\ DiffersInBlocksOrInterrupts(GetAt(conv, p), GetAt(suite, p))
          /\ StoppedWithin(p)
          /\ InList(Reported, p, "address_blocks")

(***************************************************************************)
(* C8  Within a register pair every scalar attribute, base_address         *)
(* included, is compared before the fields: if two paired registers differ *)
(* both in a scalar attribute and in an attribute of one of their fields,  *)
(* the reported divergence is the register-level one.  The same holds for  *)
(* a cluster pair with respect to its register/cluster children.           *)
(***************************************************************************)
RegisterScalarsBeforeFields ==
    {"name", "display_name", "alternate_group", "alternate_register",
     "address_offset", "data_type", "modified_write_values", "read_action",
     "size", "access", "protection"}

ClusterScalarsBeforeChildren ==
    {"name", "alternate_cluster", "header_struct_name", "address_offset",
     "size", "access", "protection"}

RegisterPairs == {p \in PairedSameKind : GetAt(conv, p).kind = "Register"}

ClusterPairs == {p \in PairedSameKind : GetAt(conv, p).kind = "Cluster"}

\* the list attribute whose elements are compared inside a register or cluster pair
ChildList(p) == IF GetAt(conv, p).kind = "Register" THEN "fields" ELSE "registers_clusters"

ScalarsBeforeChildList(p) ==
    IF GetAt(conv, p).kind = "Register"
    THEN RegisterScalarsBeforeFields ELSE ClusterScalarsBeforeChildren

\* two paired children of the pair at p differ in their class or in their name
DiffersInChildList(p) ==
    \E j \in 1..Min(Len(GetAt(conv, p)[ChildList(p)]), Len(GetAt(suite, p)[ChildList(p)])) :
        LET child_c == GetAt(conv, p)[ChildList(p)][j]
            child_s == GetAt(suite, p)[ChildList(p)][j]
        IN child_c.kind # child_s.kind \/ child_c.name # child_s.name

\* C8 as stated: the comparison the call stops at is a scalar attribute
\* comparison of the register (cluster) pair itself
C8_ScalarsBeforeChildren ==
    Returned =>
        \A p \in RegisterPairs \cup ClusterPairs :
            (/\ DiffersIn(GetAt(conv, p), GetAt(suite, p),
                          ScalarsBeforeChildList(p) \cup {"base_address"})
             /\ DiffersInChildList(p)
             /\ StoppedWithin(p))
            => /\ Reported.path = p
               /\ Reported.op = "ne"

\* C8 as amended: every scalar attribute except base_address is compared
\* before the fields (for a cluster: before its children); base_address is
\* compared after them, so if the pair differs in base_address only and in an
\* attribute of a field (child), the reported divergence is that of the field
\* (child).
C8_RegisterClusterOrder ==
    Returned =>
        \A p \in RegisterPairs \cup ClusterPairs :
            (/\ DiffersInChildList(p)
             /\ StoppedWithin(p))
            => /\ DiffersIn(GetAt(conv, p), GetAt(suite, p), ScalarsBeforeChildList(p))
                  => /\ Reported.path = p
                     /\ Reported.op = "ne"
                     /\ Reported.attr \in ScalarsBeforeChildList(p)
               /\ (/\ ~DiffersIn(GetAt(conv, p), GetAt(suite, p), ScalarsBeforeChildList(p))
                   /\ GetAt(conv, p).base_address # GetAt(suite, p).base_address)
                  => \/ InList(Reported, p, ChildList(p))
                     \/ Reported = Step(p, ChildList(p), "len")

\* reached: a register pair differs in its size and in a field name, size is reported
C8_Witness ==
    /\ Returned
    /\ \E p \in RegisterPairs :
          /\ GetAt(conv, p).size # GetAt(suite, p).size
          /\ DiffersInChildList(p)
          /\ Reported = Step(p, "size", "ne")

\* reached as well: a cluster pair differs in base_address and in a child, the
\* child is reported
C8_WitnessBaseAddress ==
    /\ Returned
    /\ \E p \in ClusterPairs :
          /\ GetAt(conv, p).base_address # GetAt(suite, p).base_address
          /\ DiffersInChildList(p)
          /\ StoppedWithin(p)
          /\ InList(Reported, p, "registers_clusters")

(***************************************************************************)
(* C9  If two single-peripheral forests are identical except for the       *)
(* peripheral-level access attribute, compare() returns False with the     *)
(* peripheral-level access mismatch as its warning and compares no         *)
(* register/cluster child of the peripheral.                               *)
(***************************************************************************)
OnlyPeripheralAccessDiffers ==
    /\ Len(_svdconv_peripherals) = 1
    /\ Len(_svdsuite_peripherals) = 1
    /\ _svdconv_peripherals[1].access # _svdsuite_peripherals[1].access
    /\ _svdsuite_peripherals =
          <<[_svdconv_peripherals[1] EXCEPT !.access = _svdsuite_peripherals[1].access]>>

\* C9: False, the Access mismatch warning, and no comparison of or below a
\* register/cluster child
C9_PeripheralAccess ==
    (Returned /\ OnlyPeripheralAccessDiffers) =>
        /\ verdict = "False"
        /\ log = <<Warning("Access mismatch", _svdconv_peripherals[1].access,
                           _svdsuite_peripherals[1].access)>>
        /\ \A k \in DOMAIN trace :
              /\ ~InList(trace[k], << <<"peripherals", 1>> >>, "registers_clusters")
              /\ trace[k].attr # "registers_clusters"

\* reached: the peripheral has register/cluster children that are left unvisited
C9_Witness ==
    /\ Returned
    /\ OnlyPeripheralAccessDiffers
    /\ Len(_svdconv_peripherals[1].registers_clusters) >= 2
    /\ verdict = "False"

(***************************************************************************)
(* C10  Every compare() call that returns False emits exactly one warning, *)
(* that of the first divergence in traversal order (peripherals in index   *)
(* order), every call that returns True emits none, and nothing is         *)
(* compared after the first divergence.                                    *)
(***************************************************************************)
\* the outcome of a comparison, read off the two forests
Diverges(step) ==
    CASE step.op = "ne" -> GetAt(conv, step.path)[step.attr] # GetAt(suite, step.path)[step.attr]
      [] step.op = "len" -> Len(GetAt(conv, step.path)[step.attr])
                                # Len(GetAt(suite, step.path)[step.attr])
      [] step.op = "isinstance" -> GetAt(conv, step.path).kind # GetAt(suite, step.path).kind

\* the two values a warning about the comparison shows
Shown(step, root) ==
    CASE step.op = "ne" -> GetAt(root, step.path)[step.attr]
      [] step.op = "len" -> Len(GetAt(root, step.path)[step.attr])
      [] step.op = "isinstance" -> GetAt(root, step.path).kind

\* C10: every comparison before the last found no divergence, peripherals are
\* visited in index order, True comes with no warning and no divergence seen,
\* False with exactly one warning, showing the values of the last comparison
C10_OneWarningAtFirstDivergence ==
    Returned =>
        /\ \A k \in DOMAIN trace : k < Len(trace) => ~Diverges(trace[k])
        /\ \A k \in DOMAIN trace : k < Len(trace) =>
              trace[k].path[1][2] <= trace[k + 1].path[1][2]
        /\ verdict = "True" =>
              /\ log = <<>>
              /\ \A k \in DOMAIN trace : ~Diverges(trace[k])
        /\ verdict = "False" =>
              /\ Len(log) = 1
              /\ Diverges(Reported)
              /\ log[1].c = Shown(Reported, conv)
              /\ log[1].s = Shown(Reported, suite)

\* reached: a False verdict on forests with a second difference at a pair that
\* was never visited
C10_Witness ==
    /\ Returned
    /\ verdict = "False"
    /\ Len(log) = 1
    /\ \E p \in PairedSameKind :
          /\ GetAt(conv, p).kind \in {"Register", "Cluster", "Field"}
          /\ GetAt(conv, p).name # GetAt(suite, p).name
          /\ \A k \in DOMAIN trace : trace[k].path # p

ObjectsOf(forest) ==
    {GetAt(Root(forest), p) : p \in ElemPaths(Root(forest), <<>>)}

ObjectsOfKind(forest, kind) == {o \in ObjectsOf(forest) : o.kind = kind}

\* the forests SVDConvParser.parse has returned so far
ReturnedForests ==
    {r.value : r \in {r \in {result, again} : r.status = "list"}}

\* list is non-decreasing by the integer attribute attr
ByAttr(list, attr) ==
    \A i \in 1 .. (Len(list) - 1) : list[i][attr] <= list[i + 1][attr]

\* list is non-decreasing by (attr, name), names in the order of str
ByAttrAndName(list, attr) ==
    \A i \in 1 .. (Len(list) - 1) :
        \/ list[i][attr] < list[i + 1][attr]
        \/ /\ list[i][attr] = list[i + 1][attr]
           /\ NameRank(list[i].name) <= NameRank(list[i + 1].name)

\* enumerated values the expansion of a default made up: <default name>_<value>
IsSynthetic(ev) ==
    \E default \in SeqRange(Names) : ev.name = default \o "_" \o ToString(ev.value)

(***************************************************************************)
(* C12: idempotence.  Parsing the same output of the reference tool twice  *)
(* gives two forests that Compare.compare judges equal: the second parse   *)
(* returns what the first returned, whatever order the sets are iterated   *)
(* in, and the comparison of the two returns True.                         *)
(***************************************************************************)
C12_ParseTwiceComparesTrue ==
    /\ (result.status = "list" /\ again # Pending) => again = result
    /\ (result.status = "list" /\ again.status = "list" /\ calls = 1) =>
           /\ verdict = "True"
           /\ log = <<>>

\* both parses returned the two peripherals, the expansion of a default made
\* up enumerated values in each, and the comparison has returned
C12_Witness ==
    /\ calls = 1
    /\ Len(result.value) = 2
    /\ _svdconv_peripherals = result.value
    /\ _svdsuite_peripherals = again.value
    /\ \E ev \in ObjectsOfKind(result.value, "EnumeratedValue") : IsSynthetic(ev)
    /\ verdict = "True"

(***************************************************************************)
(* C13: sort invariant.  In every forest SVDConvParser.parse returns the   *)
(* peripherals are non-decreasing by (base_address, name), the address     *)
(* blocks by offset, the interrupts by value, the register/cluster         *)
(* children of every peripheral and cluster by (address_offset, name), the *)
(* fields of every register by (lsb, name) and the enumerated values of    *)
(* every container by value.                                               *)
(***************************************************************************)
SortInvariant(forest) ==
    /\ ByAttrAndName(forest, "base_address")
    /\ \A o \in ObjectsOf(forest) :
          CASE o.kind = "Peripheral" ->
                  /\ ByAttr(o.address_blocks, "offset")
                  /\ ByAttr(o.interrupts, "value")
                  /\ ByAttrAndName(o.registers_clusters, "address_offset")
            [] o.kind = "Cluster" -> ByAttrAndName(o.registers_clusters, "address_offset")
            [] o.kind = "Register" -> ByAttrAndName(o.fields, "lsb")
            [] o.kind = "EnumeratedValueContainer" -> ByAttr(o.enumerated_values, "value")
            [] OTHER -> TRUE

C13_SortInvariant == \A forest \in ReturnedForests : SortInvariant(forest)

\* the printed text lists TIMER0 before UART0, its fields, children, address
\* blocks, interrupts and enumerated values out of order, and was parsed
C13_Witness ==
    /\ debug_output = TimerLines \o UartLines
    /\ result.status = "list"
    /\ Len(result.value) = 2
    /\ result.value[1].name = "UART0"
    /\ \E r \in ObjectsOfKind(result.value, "Register") : Len(r.fields) >= 2
    /\ \E c \in ObjectsOfKind(result.value, "EnumeratedValueContainer") :
          Len(c.enumerated_values) >= 3

(***************************************************************************)
(* Vocabulary of the default expansion: the Enum Container blocks of the   *)
(* printed text, each with the Field block it is printed under.            *)
(***************************************************************************)
ContainerHeaders ==
    {i \in DOMAIN debug_output : StartsWith(debug_output[i], "=== Enum Container:")}

\* the header of the Field block the container at line i is printed under
FieldHeaderOf(i) ==
    CHOOSE j \in 0 .. (i - 1) :
        /\ j > 0 => StartsWith(debug_output[j], "=== Field")
        /\ \A k \in (j + 1) .. (i - 1) : ~StartsWith(debug_output[k], "=== Field")

\* the container at line i as parse_field has it parsed: the attributes of
\* the field, the enumerated values as printed, and the parsed container
ContainerCase(i, order) ==
    LET j == FieldHeaderOf(i)
        field == ReadPairs(debug_output, j + 1, <<>>, "Field")
        bit_offset == DecAttr(field.data, "bitOffset")
        bit_width == DecAttr(field.data, "bitWidth")
        header == ReadPairs(debug_output, i + 1, <<>>, "Enum Container")
        printed == parse_enums(debug_output, header.index, <<>>).value
        container == parse_enum_container(debug_output, i, bit_offset.value,
                                          bit_offset.value + bit_width.value - 1, order)
    IN [parsed |-> j > 0 /\ bit_offset.exc = "None" /\ bit_width.exc = "None"
                         /\ container.exc = "None",
        width |-> bit_width.value,
        defaults |-> SelectSeq(printed, LAMBDA ev : ev.is_default),
        explicit |-> SelectSeq(printed, LAMBDA ev : ~ev.is_default),
        values |-> [n \in DOMAIN container.value.enumerated_values |->
                       container.value.enumerated_values[n]]]

ContainerCases ==
    {c \in {ContainerCase(i, order) : i \in ContainerHeaders, order \in SetOrders} : c.parsed}

\* the values of the entries cover 0 .. 2^W - 1, each exactly once
CoversOnce(entries, width) ==
    /\ Len(entries) = 2^width
    /\ \A v \in 0 .. (2^width - 1) :
          Cardinality({n \in DOMAIN entries : entries[n].value = v}) = 1

(***************************************************************************)
(* C14 as stated: default-expansion completeness.  For a field of width W  *)
(* whose enum container has one default-flagged enumerated value and k     *)
(* explicit ones, the parsed container holds exactly 2^W entries whose     *)
(* values cover 0 .. 2^W - 1 exactly once each.                            *)
(***************************************************************************)
C14_DefaultExpansionComplete ==
    result.status = "list" =>
        \A c \in ContainerCases :
            Len(c.defaults) = 1 => CoversOnce(c.values, c.width)

(***************************************************************************)
(* C14 amended: the same, for explicit values that are pairwise distinct   *)
(* and lie in 0 .. 2^W - 1.  The expansion adds an entry for every value   *)
(* no explicit one has and removes none, so an explicit value printed      *)
(* twice or out of the field's range stays in the container.               *)
(***************************************************************************)
DistinctInRange(explicit, width) ==
    /\ \A n \in DOMAIN explicit : explicit[n].value \in 0 .. (2^width - 1)
    /\ \A m, n \in DOMAIN explicit : m # n => explicit[m].value # explicit[n].value

C14_CompleteForDistinctValuesInRange ==
    result.status = "list" =>
        \A c \in ContainerCases :
            (Len(c.defaults) = 1 /\ DistinctInRange(c.explicit, c.width)) =>
                CoversOnce(c.values, c.width)

\* a container with one default and two explicit values under a field of
\* width 2 was parsed into the four entries of the returned forest
C14_Witness ==
    /\ result.status = "list"
    /\ \E c \in ContainerCases :
          /\ Len(c.defaults) = 1
          /\ Len(c.explicit) = 2
          /\ c.width = 2
          /\ DistinctInRange(c.explicit, c.width)
          /\ \E o \in ObjectsOfKind(result.value, "EnumeratedValueContainer") :
                /\ o.enumerated_values = c.values
                /\ Len(o.enumerated_values) = 4

(***************************************************************************)
(* C15: in every parsed enum container no enumerated value is flagged      *)
(* default or has the value None.  Every default entry is dropped, the     *)
(* explicit entries keep their names and values, and for each value v that *)
(* no explicit entry has there is one made-up entry, named                 *)
(* <name of the default>_<v>.                                              *)
(***************************************************************************)
Resolved(ev) == ~ev.is_default /\ ev.value # NoValue

\* entries holds the explicit entries and, where there is a default, one
\* entry named after it for every value of the width that none of them has
ExplicitAndSynthetic(c) ==
    LET uncovered == IF c.defaults = <<>> THEN {}
                     ELSE (0 .. (2^c.width - 1))
                              \ {c.explicit[n].value : n \in DOMAIN c.explicit}
    IN /\ Len(c.values) = Len(c.explicit) + Cardinality(uncovered)
       /\ \A n \in DOMAIN c.explicit :
             Cardinality({m \in DOMAIN c.values : c.values[m] = c.explicit[n]})
                 = Cardinality({m \in DOMAIN c.explicit : c.explicit[m] = c.explicit[n]})
       /\ \A v \in uncovered :
             \E m \in DOMAIN c.values :
                 /\ c.values[m].value = v
                 /\ c.values[m].name = c.defaults[1].name \o "_" \o ToString(v)
                 /\ \A n \in DOMAIN c.values : c.values[n].value = v => n = m

C15_DefaultDroppedSyntheticNamed ==
    /\ \A forest \in ReturnedForests :
          \A ev \in ObjectsOfKind(forest, "EnumeratedValue") : Resolved(ev)
    /\ result.status = "list" =>
          \A c \in ContainerCases :
              /\ \A n \in DOMAIN c.values : Resolved(c.values[n])
              /\ ExplicitAndSynthetic(c)

\* width 2, explicit A = 0 and B = 1, default X: the returned forest holds
\* the container with A, B, X_2 and X_3
C15_Witness ==
    /\ result.status = "list"
    /\ \E c \in ContainerCases :
          /\ c.width = 2
          /\ Len(c.defaults) = 1
          /\ c.defaults[1].name = "X"
    /\ \E o \in ObjectsOfKind(result.value, "EnumeratedValueContainer") :
          [n \in DOMAIN o.enumerated_values |->
              <<o.enumerated_values[n].value, o.enumerated_values[n].name>>]
              = <<<<0, "A">>, <<1, "B">>, <<2, "X_2">>, <<3, "X_3">>>>

(***************************************************************************)
(* C16: base-address accumulation.  In every parsed forest the             *)
(* base_address of each Register and Cluster is the base_address of its    *)
(* parent, the peripheral or the enclosing cluster, plus its own           *)
(* address_offset, at every depth of nesting.                              *)
(***************************************************************************)
Accumulated(forest) ==
    \A p \in ElemPaths(Root(forest), <<>>) :
        LET child == GetAt(Root(forest), p)
            parent == GetAt(Root(forest), SubSeq(p, 1, Len(p) - 1))
        IN child.kind \in {"Register", "Cluster"} =>
               child.base_address = parent.base_address + child.address_offset

C16_BaseAddressAccumulation == \A forest \in ReturnedForests : Accumulated(forest)

(***************************************************************************)
(* C17: a token outside the closed vocabularies (access, protection,       *)
(* address-block usage, write-modification, read-action, data-type, enum   *)
(* usage), or a missing access, protection or usage token, is fatal.       *)
(* SVDConvParser.parse raises NotImplementedError and returns no forest,   *)
(* neither a partial one nor one with a default in the token's place, and  *)
(* neither parse_svdconv_output nor main catches the exception: the run    *)
(* ends with it at that file, which is not compared.                       *)
(***************************************************************************)
\* the texts that differ from the printed one in a token, and those among
\* them in which an access, protection or usage token is missing
UnknownOrMissingToken ==
    {LineEdit(TimerLines \o UartLines, e) : e \in TokenEdits(TimerLines \o UartLines)}

MissingToken ==
    {LineEdit(TimerLines \o UartLines, e)
     : e \in {d \in TokenEdits(TimerLines \o UartLines) :
                  /\ d.op = "drop"
                  /\ (TimerLines \o UartLines)[d.at].key
                         \in {"access", "protection", "Protection", "Usage", "usage"}}}

C17_UnknownTokenIsFatal ==
    \A k \in DOMAIN journal :
        (svd_meta_list[k].lines \in UnknownOrMissingToken \cup {UartUnknownToken}
             /\ svd_meta_list[k].summary.found
             /\ svd_meta_list[k].summary.errors = 0) =>
            /\ journal[k] = Entry(svd_meta_list[k].meta, "raised", FALSE, FALSE)
            /\ exit = "NotImplementedError"
            /\ Len(journal) = k
            /\ k = 1 => NoCompare

\* a run has ended with NotImplementedError at its first file, in which a
\* token is missing, with a second file left unprocessed
C17_Witness ==
    /\ Len(svd_meta_list) = 2
    /\ svd_meta_list[1].lines \in MissingToken
    /\ Len(journal) = 1
    /\ journal[1].parsed = "raised"
    /\ exit = "NotImplementedError"

(***************************************************************************)
(* C18: if the summary line of the reference tool reports N > 0 errors,    *)
(* parse_svdconv_output returns None without parsing any of the text: the  *)
(* tool is not run for its debug output at all.  None is not the empty     *)
(* list a parse of a text without peripherals returns; with N = 0 what is  *)
(* returned is a list.                                                     *)
(***************************************************************************)
C18_ErrorsGiveNone ==
    (result # Pending /\ summary_line.found) =>
        /\ summary_line.errors > 0 =>
              /\ result = ReturnedNone
              /\ runs = <<StatsRun>>
        /\ summary_line.errors = 0 =>
              /\ result.status # "None"
              /\ runs = <<StatsRun, DebugRun>>
              /\ debug_output = TimerLines \o UartLines => result.status = "list"
              /\ peripheral_blocks(debug_output) = <<>> =>
                    /\ result = ReturnedList(<<>>)
                    /\ result # ReturnedNone

\* None was returned for a text that an unknown token makes the parser
\* raise on, and the empty list for an output without peripherals
C18_Witness ==
    /\ result = ReturnedNone
    /\ summary_line.errors > 0
    /\ debug_output \in UnknownOrMissingToken

C18_WitnessEmptyList ==
    /\ result = ReturnedList(<<>>)
    /\ summary_line.errors = 0
    /\ summary_line.found

(***************************************************************************)
(* C19 as stated: output of the reference tool that cannot be parsed (no   *)
(* summary line, a line without a colon inside an address block or an      *)
(* interrupt, indentation that is not a multiple of the unit) is signaled  *)
(* by parse_svdconv_output returning None, never by an exception.          *)
(***************************************************************************)
\* the texts that differ from the printed one in a line of an address block
\* or interrupt that has lost its colon, or in a header indented by one more
Unparseable ==
    {LineEdit(TimerLines \o UartLines, e)
     : e \in {d \in LineEdits(TimerLines \o UartLines) :
                  \/ /\ d.op = "text"
                     /\ (TimerLines \o UartLines)[d.at].key
                            \in {"Offset", "Size", "Usage", "Protection", "Name", "Value"}
                  \/ /\ d.op = "indent"
                     /\ d.by = 1}}

C19_UnparseableGivesNone ==
    (result # Pending /\ (~summary_line.found \/ debug_output \in Unparseable)) =>
        result = ReturnedNone

(***************************************************************************)
(* C20: the batch loop of main exits with status 1 exactly at the first    *)
(* processed file whose verdict is False and which is not in the list of   *)
(* accepted differences, and processes no file after it.  A file for which *)
(* the parser returns None is not compared and the loop goes on with the   *)
(* next file; a False verdict on a file of the list does not stop the run. *)
(***************************************************************************)
\* svd_meta is one of the ACCEPTED_DIFFERENCES
AllowListed(svd_meta) ==
    \E i \in DOMAIN ACCEPTED_DIFFERENCES :
        ACCEPTED_DIFFERENCES[i] = [vendor |-> svd_meta.vendor, name |-> svd_meta.name,
                                   version |-> svd_meta.version, svd_name |-> svd_meta.svd]

\* the k-th file was compared with verdict False and is not allow-listed
Stops(k) == journal[k].compared /\ journal[k].difference /\ ~AllowListed(journal[k].meta)

\* what the files say the k-th iteration has to find
Faithful(k) ==
    LET file == svd_meta_list[k]
    IN /\ journal[k].meta = file.meta
       /\ (file.summary.found /\ file.summary.errors > 0) =>
              journal[k].parsed = "None"
       /\ (file.summary.found /\ file.summary.errors = 0 /\ file.lines = UartLines) =>
              /\ journal[k].parsed = "list"
              /\ journal[k].compared
              /\ journal[k].difference = (file.svdsuite # UartForest)

C20_ExitAtFirstUnacceptedDifference ==
    /\ \A k \in DOMAIN journal :
          /\ Faithful(k)
          /\ Stops(k) => (exit = "SystemExit(1)" /\ Len(journal) = k)
          /\ journal[k].parsed = "None" =>
                /\ ~journal[k].compared
                /\ k = Len(journal) => exit \in {"running", "0"}
          /\ (journal[k].compared /\ ~Stops(k) /\ k = Len(journal)) =>
                exit \in {"running", "0"}
    /\ exit = "SystemExit(1)" =>
          /\ journal # <<>>
          /\ Stops(Len(journal))
          /\ \A k \in 1 .. (Len(journal) - 1) : ~Stops(k)
    /\ exit = "0" =>
          /\ Len(journal) = Len(svd_meta_list)
          /\ \A k \in DOMAIN journal : ~Stops(k)

\* of three files the first was skipped on None, the second differs and is
\* allow-listed, the third differs and is not: the run exits with status 1
C20_Witness ==
    /\ Len(svd_meta_list) = 3
    /\ Len(journal) = 3
    /\ journal[1].parsed = "None"
    /\ journal[2].difference /\ AllowListed(journal[2].meta)
    /\ Stops(3)
    /\ exit = "SystemExit(1)"

\* the run has exited at the first of three files
C20_WitnessNoLaterFile ==
    /\ Len(svd_meta_list) = 3
    /\ Len(journal) = 1
    /\ Stops(1)
    /\ exit = "SystemExit(1)"

\* the run went through a file the parser returned None for and a
\* difference that is allow-listed, and main returned
C20_WitnessRunsOn ==
    /\ exit = "0"
    /\ \E k \in DOMAIN journal : journal[k].parsed = "None"
    /\ \E k \in DOMAIN journal : journal[k].difference /\ AllowListed(journal[k].meta)


(***************************************************************************)
(* Vocabulary of the nesting of clusters: the peripheral blocks of the     *)
(* printed text as parse_peripheral receives them, and the Cluster blocks  *)
(* in them as parse_cluster has them parsed.                               *)
(***************************************************************************)
IsBlockHeader(line) == StartsWith(line, "=== Register") \/ StartsWith(line, "=== Cluster")

\* the Register and Cluster blocks of a forest, one for every place
BlockPaths(forest) ==
    {p \in ElemPaths(Root(forest), <<>>) :
        GetAt(Root(forest), p).kind \in {"Register", "Cluster"}}

\* the Register and Cluster objects under a cluster, at every depth
Descendants(cluster) ==
    {o \in {GetAt(cluster, p) : p \in ElemPaths(cluster, <<>>)} :
        o.kind \in {"Register", "Cluster"}}

\* the Cluster blocks parse_cluster has turned into an object of the
\* returned forest: the lines of the peripheral block, the line of the
\* header, the object and the line parse_cluster has stopped at
ParsedClusters ==
    IF result.status # "list" THEN {}
    ELSE UNION {UNION {UNION {{[lines |-> block, header |-> i, order |-> order,
                                 value |-> c.value, index |-> c.index]
                                 : c \in {c \in {parse_cluster(block, i, order)} :
                                             /\ c.exc = "None"
                                             /\ c.value \in ObjectsOf(result.value)}}
                                : order \in SetOrders}
                         : i \in {i \in DOMAIN block : StartsWith(block[i], "=== Cluster")}}
                  : block \in SeqRange(peripheral_blocks(debug_output))}

\* the first section marker after the header of the cluster that is printed
\* at the depth of the header, or the end of the text
MarkerAfter(c) ==
    LET markers == {j \in (c.header + 1) .. Len(c.lines) :
                       /\ StartsWith(c.lines[j], "===")
                       /\ c.lines[j].indent = c.lines[c.header].indent}
    IN IF markers = {} THEN Len(c.lines) + 1
       ELSE CHOOSE j \in markers : \A k \in markers : j <= k

\* the marker ends the cluster: parse_cluster hands the line of the marker
\* back to its caller
EndsAtMarker(c) == c.index = MarkerAfter(c)

\* the blocks printed deeper than the header before the marker are objects
\* under the cluster
DeeperBlocksBelong(c) ==
    \A j \in (c.header + 1) .. (MarkerAfter(c) - 1) :
        (IsBlockHeader(c.lines[j]) /\ c.lines[j].indent > c.lines[c.header].indent) =>
            LET block == parse_register_or_cluster(c.lines, j, c.order)
            IN block.exc = "None" /\ block.value \in Descendants(c.value)

\* Register and Cluster headers of the text, Register and Cluster objects of
\* the forest
ExactlyOnce ==
    result.status = "list" =>
        Cardinality(BlockPaths(result.value))
            = Cardinality({j \in DOMAIN debug_output : IsBlockHeader(debug_output[j])})

(***************************************************************************)
(* C21: cluster termination by depth.  While a cluster whose header is at  *)
(* depth d is parsed, a section marker at depth d ends the cluster and is  *)
(* left to the caller, which parses it as a sibling; every Register and    *)
(* Cluster block printed deeper than d before that marker is an object     *)
(* under the cluster; and every Register and Cluster block of the text is  *)
(* in the returned forest exactly once.                                    *)
(***************************************************************************)
C21_ClusterTerminationByDepth ==
    /\ \A c \in ParsedClusters : EndsAtMarker(c) /\ DeeperBlocksBelong(c)
    /\ ExactlyOnce

(***************************************************************************)
(* C22: a section marker at a depth shallower than the cluster being       *)
(* parsed ends that cluster.  No Register or Cluster block whose header is *)
(* indented less than the header of a cluster lies among the lines that    *)
(* cluster is parsed from: after a nested cluster at depth d+1, a block at *)
(* depth d is not absorbed into the nested cluster.                        *)
(***************************************************************************)
C22_ShallowerMarkerEndsCluster ==
    \A c \in ParsedClusters :
        \A j \in (c.header + 1) .. (c.index - 1) :
            IsBlockHeader(c.lines[j]) => c.lines[j].indent >= c.lines[c.header].indent

(***************************************************************************)
(* Vocabulary of the enumerated values: the Enum blocks of the printed     *)
(* text, each with its value token and the object parse_enum makes of it.  *)
(***************************************************************************)
EnumHeaders == {i \in DOMAIN debug_output : StartsWith(debug_output[i], "Enum:")}

EnumCase(i) ==
    LET read == ReadPairs(debug_output, i + 1, <<>>, "Enum")
    IN [printed |-> "value" \in DOMAIN read.data,
        token |-> IF "value" \in DOMAIN read.data THEN read.data["value"] ELSE Word(""),
        ev |-> parse_enum(debug_output, i).value]

\* the Enum blocks that are not flagged default
EnumCases == {c \in {EnumCase(i) : i \in EnumHeaders} : ~c.ev.is_default}

BinaryDigits(token) ==
    /\ token.kind = "numeral"
    /\ token.digits # <<>>
    /\ \A n \in DOMAIN token.digits : token.digits[n] \in {0, 1}

\* 0b followed by binary digits
IsBinaryLiteral(token) == BinaryDigits(token) /\ token.prefix = "0b"

\* the number the digits are in base 2
BinaryValue(digits) ==
    LET sum[n \in 0 .. Len(digits)] ==
            IF n = 0 THEN 0 ELSE sum[n - 1] + digits[n] * 2^(Len(digits) - n)
    IN sum[Len(digits)]

(***************************************************************************)
(* C23 as stated: for every Enum block that is not flagged default and     *)
(* whose value token is 0b followed by binary digits, the value of the     *)
(* parsed EnumeratedValue is the base-2 value of the digits, and a value   *)
(* token that is not a binary literal does not give a value.               *)
(***************************************************************************)
C23_OnlyBinaryLiteralsGiveValues ==
    \A c \in EnumCases :
        /\ IsBinaryLiteral(c.token) => c.ev.value = BinaryValue(c.token.digits)
        /\ (c.printed /\ ~IsBinaryLiteral(c.token)) => c.ev.value = NoValue

(***************************************************************************)
(* C23: binary-literal enumerated values are decoded as base-2 integers.   *)
(* For every Enum block that is not flagged default, a value token of 0b   *)
(* followed by binary digits gives the base-2 value of the digits, and so  *)
(* do binary digits without the prefix; every other value token, like a    *)
(* block without a value line, gives the value 0.                          *)
(***************************************************************************)
C23_BinaryLiteralsElseZero ==
    \A c \in EnumCases :
        c.ev.value = IF c.printed /\ BinaryDigits(c.token) /\ c.token.prefix \in {"0b", ""}
                     THEN BinaryValue(c.token.digits)
                     ELSE 0

\* the returned forest holds the value 2 read from 0b10 next to the value 0
\* read from 0b0
C23_Witness ==
    /\ result.status = "list"
    /\ \E c \in EnumCases :
          /\ c.token = Numeral("0b", <<1, 0>>)
          /\ c.ev.value = 2
          /\ c.ev \in ObjectsOf(result.value)
    /\ \E c \in EnumCases :
          /\ c.token = Numeral("0b", <<0>>)
          /\ c.ev.value = 0
          /\ c.ev \in ObjectsOf(result.value)

\* the returned forest holds the value 0 for a value token that is a word
C23_WitnessWord ==
    /\ result.status = "list"
    /\ \E c \in EnumCases :
          /\ c.token = Word("BOGUS")
          /\ c.ev.value = 0
          /\ c.ev \in ObjectsOf(result.value)

\* the returned forest holds the value 0 for the value tokens 0x1 and 0b2
\* and for a block without a value line, and the value 1 for the token 1
C23_WitnessHexadecimal ==
    /\ result.status = "list"
    /\ \E c \in EnumCases :
          c.token = Numeral("0x", <<1>>) /\ c.ev.value = 0 /\ c.ev \in ObjectsOf(result.value)

C23_WitnessNotBinaryDigit ==
    /\ result.status = "list"
    /\ \E c \in EnumCases :
          c.token = Numeral("0b", <<2>>) /\ c.ev.value = 0 /\ c.ev \in ObjectsOf(result.value)

C23_WitnessNoValueLine ==
    /\ result.status = "list"
    /\ \E c \in EnumCases : ~c.printed /\ c.ev.value = 0 /\ c.ev \in ObjectsOf(result.value)

C23_WitnessNoPrefix ==
    /\ result.status = "list"
    /\ \E c \in EnumCases :
          c.token = Numeral("", <<1>>) /\ c.ev.value = 1 /\ c.ev \in ObjectsOf(result.value)

(***************************************************************************)
(* Vocabulary of the line index: a call of a sub-parser on the line the    *)
(* calling loop has found it for.                                          *)
(***************************************************************************)
\* the call has returned an index greater than the one it was given, and
\* none beyond the end of the lines
Advances(lines, index, call) ==
    call.exc = "None" => (index < call.index /\ call.index <= Len(lines) + 1)

\* the call has returned an index that is not before the line at which the
\* loop over the key/value lines of its block has stopped
KeepsProgress(lines, index, block, call) ==
    LET read == ReadPairs(lines, index + 1, <<>>, block)
    IN (call.exc = "None" /\ read.exc = "None") =>
           (index < read.index /\ read.index <= call.index)

\* every iteration of a loop either calls a sub-parser on the line it is at
\* or steps over the line: the calls of the loops of parse_peripheral,
\* parse_cluster, parse_register, parse_field and parse_enum_container at
\* line i
IndexIncreases(lines, i, order) ==
    /\ StartsWith(lines[i], "Address Block:") =>
          LET call == parse_address_block(lines, i)
          IN Advances(lines, i, call) /\ KeepsProgress(lines, i, "Address Block", call)
    /\ StartsWith(lines[i], "Interrupt:") =>
          LET call == parse_interrupt(lines, i)
          IN Advances(lines, i, call) /\ KeepsProgress(lines, i, "Interrupt", call)
    /\ StartsWith(lines[i], "===") =>
          Advances(lines, i, parse_register_or_cluster(lines, i, order))
    /\ StartsWith(lines[i], "=== Register") =>
          KeepsProgress(lines, i, "Register", parse_register(lines, i, order))
    /\ StartsWith(lines[i], "=== Cluster") =>
          KeepsProgress(lines, i, "Cluster", parse_cluster(lines, i, order))
    /\ StartsWith(lines[i], "=== Field") =>
          LET call == parse_field(lines, i, order)
          IN Advances(lines, i, call) /\ KeepsProgress(lines, i, "Field", call)
    /\ StartsWith(lines[i], "=== Enum Container:") =>
          LET call == parse_enum_container(lines, i, 0, 1, order)
          IN Advances(lines, i, call) /\ KeepsProgress(lines, i, "Enum Container", call)
    /\ StartsWith(lines[i], "Enum:") =>
          LET call == parse_enum(lines, i)
          IN Advances(lines, i, call) /\ KeepsProgress(lines, i, "Enum", call)

(***************************************************************************)
(* C24: SVDConvParser.parse terminates on every finite list of lines.  On  *)
(* every line of every peripheral block, the sub-parser a loop calls there *)
(* (address block, interrupt, register or cluster, field, enum container,  *)
(* enum) returns an index greater than the one it was given and not beyond *)
(* the end of the block, and not before the line its own loops have        *)
(* reached; a line no sub-parser is called for is stepped over.  The       *)
(* index thus increases in every iteration of every loop and is bounded.   *)
(***************************************************************************)
C24_IndexStrictlyIncreases ==
    \A lines \in SeqRange(peripheral_blocks(debug_output)) :
        \A i \in 2 .. Len(lines) :
            \A order \in SetOrders : IndexIncreases(lines, i, order)

\* parse has returned a forest for a text in which a section marker that
\* heads neither a Register nor a Cluster block is stepped over by one line,
\* and in which a cluster with a nested cluster is parsed
C24_Witness ==
    /\ result.status = "list"
    /\ \E lines \in SeqRange(peripheral_blocks(debug_output)) :
          /\ \E i \in 2 .. Len(lines) :
                /\ StartsWith(lines[i], "===")
                /\ ~IsBlockHeader(lines[i])
                /\ parse_register_or_cluster(lines, i, "ascending") = Parsed(NoObject, i + 1)
          /\ \E i \in 2 .. Len(lines) :
                /\ StartsWith(lines[i], "=== Cluster")
                /\ parse_cluster(lines, i, "ascending").exc = "None"
                /\ parse_cluster(lines, i, "ascending").index > i + 1
                /\ \E o \in Descendants(parse_cluster(lines, i, "ascending").value) :
                      o.kind = "Cluster"
=============================================================================
